---- MODULE Spec2Model ----
(***************************************************************************)
(* A model of the Zoopla scraper's strategy-chained extraction pipeline    *)
(* (src/src/main.js): the field utilities that decide a listing's          *)
(* identity, the concurrency limiter, and the orchestrator that walks the  *)
(* targets, strategies and pages and hands Properties to the Dataset.      *)
(*                                                                         *)
(* Granularity.  JavaScript runs one macrotask to completion, together     *)
(* with every microtask it queues (promise reactions).  A step of Spec is  *)
(* therefore one I/O completion (a fetch or a pushData call returning or   *)
(* throwing) followed by everything the code does before it next waits for *)
(* I/O: the settling of the task's promise, the limiter's finally callback *)
(* starting queued tasks, the reaction of Promise.all and the              *)
(* orchestrator's continuation up to its next await.  SpecLimiter models   *)
(* createLimiter alone, one call or promise reaction per step.             *)
(***************************************************************************)
EXTENDS Integers, Sequences, FiniteSets, Bags, TLC

(***************************************************************************)
(* Strings.  The strings the identity logic inspects (ids and URLs) are    *)
(* modelled as token sequences: `abs` says the string starts with          *)
(* "https://www.zoopla.co.uk", `lead` that the path starts with "/", and   *)
(* `segs` are the "/"-separated segments, each a word or a run of digits.  *)
(* Null stands for every falsy value (null, undefined, ""): the code only  *)
(* tests these strings with ||, ! and ?.                                   *)
(***************************************************************************)
W(w) == [k |-> "w", w |-> w, n |-> 0]
D(n) == [k |-> "d", w |-> "", n |-> n]
Null == [abs |-> FALSE, lead |-> FALSE, segs |-> <<>>]
IdStr(n) == [abs |-> FALSE, lead |-> FALSE, segs |-> <<D(n)>>]
Rel(segs) == [abs |-> FALSE, lead |-> FALSE, segs |-> segs]
Path(segs) == [abs |-> FALSE, lead |-> TRUE, segs |-> segs]
Abs(segs) == [abs |-> TRUE, lead |-> TRUE, segs |-> segs]

\* a || b on strings
Or(a, b) == IF a # Null THEN a ELSE b

Min(S) == CHOOSE x \in S : \A y \in S : x <= y

\* whether segment i of u directly follows a "/"
AfterSlash(u, i) == i > 1 \/ u.lead \/ u.abs

\* the least number with six digits: \d{6,} of the third pattern
SixDigits == 100000

extractListingId(url) ==
    IF url = Null THEN Null
    ELSE LET s == url.segs
             n == Len(s)
             m1 == {i \in 1..(n - 1) : /\ s[i] = W("details")
                                       /\ AfterSlash(url, i)
                                       /\ s[i + 1].k = "d"}
             m2 == {i \in 1..(n - 2) : /\ s[i] = W("property")
                                       /\ AfterSlash(url, i)
                                       /\ s[i + 2].k = "d"}
             m3 == /\ n >= 1
                   /\ s[n].k = "d"
                   /\ s[n].n >= SixDigits
                   /\ AfterSlash(url, n)
         IN  IF m1 # {} THEN IdStr(s[Min(m1) + 1].n)
             ELSE IF m2 # {} THEN IdStr(s[Min(m2) + 2].n)
             ELSE IF m3 THEN IdStr(s[n].n)
             ELSE Null

\* the strings of the model start neither with "data:" nor with "//"
ensureAbsoluteUrl(url) ==
    IF url = Null THEN Null
    ELSE IF url.abs THEN url
    ELSE Abs(url.segs)

(***************************************************************************)
(* Listing stubs.  A raw item is an object found in an API payload or in   *)
(* the embedded page state, reduced to the two values its identity is      *)
(* computed from: `id` (the first truthy of listing_id, listingId, id) and *)
(* `url` (the first truthy of details_url ... uri).  A stub and a Property *)
(* are reduced to listingId and url in the same way.                       *)
(***************************************************************************)
Item(id, url) == [id |-> id, url |-> url]

isListingLike(item) == item.id # Null \/ item.url # Null

normalizeListing(item) ==
    [listingId |-> Or(item.id, extractListingId(item.url)),
     url |-> ensureAbsoluteUrl(item.url)]

\* listing.listingId || listing.url
StubKey(listing) == Or(listing.listingId, listing.url)

\* the loop "if (!key || seen.has(key)) continue; seen.add(key); push(entry)";
\* each round binds the values the next one starts from
RECURSIVE DedupStubs(_, _, _)
DedupStubs(entries, keys, acc) ==
    IF entries = <<>> THEN acc
    ELSE CHOOSE result \in
             {IF key = Null \/ key \in keys
              THEN DedupStubs(rest, keys, acc)
              ELSE DedupStubs(rest, keys \cup {key}, Append(acc, Head(entries))) :
                  key \in {StubKey(Head(entries))}, rest \in {Tail(entries)}} : TRUE

\* `payload` is the array of objects the worklist traversal reaches
extractListingsFromApiResponse(payload) ==
    LET listings == SelectSeq(payload, isListingLike)
        entries == [i \in 1..Len(listings) |-> normalizeListing(listings[i])]
    IN  DedupStubs(entries, {}, <<>>)

\* `urls` are the url / @id values of the ItemList elements
extractListingsFromJsonLd(urls) ==
    LET present == SelectSeq(urls, LAMBDA u : u # Null)
    IN  [i \in 1..Len(present) |->
            [listingId |-> extractListingId(present[i]),
             url |-> ensureAbsoluteUrl(present[i])]]

\* a page: its JSON-LD ItemList urls and the raw items of its __NEXT_DATA__
extractListingsFromHtml(html) ==
    DedupStubs(extractListingsFromJsonLd(html.jsonLd)
                   \o extractListingsFromApiResponse(html.embedded),
               {}, <<>>)

\* the test of a sitemap <loc> against the first pattern alone
isSitemapListingLoc_DetailsOnly(loc) ==
    LET s == loc.segs
        n == Len(s)
    IN  \E i \in 1..n :
            /\ s[i] = W("for-sale")
            /\ AfterSlash(loc, i)
            /\ i + 2 <= n /\ s[i + 1] = W("details")

\* the test of a sitemap <loc> against the two listing-path patterns
isSitemapListingLoc(loc) ==
    LET s == loc.segs
        n == Len(s)
    IN  \E i \in 1..n :
            /\ s[i] = W("for-sale")
            /\ AfterSlash(loc, i)
            /\ \/ i + 2 <= n /\ s[i + 1] = W("details")
               \/ i + 3 <= n /\ s[i + 1] = W("property") /\ s[i + 3].k = "d"

\* parseDetailHtml builds a record with neither listingId nor url, and a
\* null detail reads the same through detail?.listingId and detail?.url
parseDetailHtml == [listingId |-> Null, url |-> Null]

PropertyUrl(listing, detail) == ensureAbsoluteUrl(Or(listing.url, detail.url))

\* the chain of buildProperty's listingId without its last operand
PropertyListingId_NoUrl(listing, detail) ==
    LET url == PropertyUrl(listing, detail)
    IN  Or(Or(listing.listingId, detail.listingId), extractListingId(url))

PropertyListingId(listing, detail) ==
    LET url == PropertyUrl(listing, detail)
    IN  Or(Or(Or(listing.listingId, detail.listingId), extractListingId(url)), url)

buildProperty(listing, detail, source) ==
    [listingId |-> PropertyListingId(listing, detail),
     url |-> PropertyUrl(listing, detail),
     source |-> source]

(***************************************************************************)
(* Bounds of the model and the data the site may answer with.              *)
(***************************************************************************)
MaxTargets == 2        \* startUrls has at most this many entries
MaxWanted == 2         \* results_wanted is drawn from 0..MaxWanted
MaxPagesIn == 2        \* max_pages is drawn from 0..MaxPagesIn
MaxDepth == 1          \* indexes with several entries nest at most this deep
MaxFaults == 2         \* at most this many awaits of a run throw
MaxConcIn == 2         \* a maxConcurrency input is drawn from 1..MaxConcIn

DEFAULT_MAX_CONCURRENCY == 3
\* the default of the maxConcurrency input in the README's input schema
README_MAX_CONCURRENCY == 2
\* the number of entries of sitemapCandidates
SitemapCandidates == 4

DEFAULT_START_URL == Abs(<<W("for-sale"), W("property"), W("london")>>)
OtherStartUrl == Abs(<<W("for-sale"), W("property"), W("leeds")>>)

\* raw items: a usual one, one whose relative url has no leading "/", two
\* of other listings that carry no url, and one that is no listing
ItemA == Item(IdStr(123), Path(<<W("for-sale"), W("details"), D(123)>>))
ItemB == Item(Null, Rel(<<W("details"), D(123)>>))
ItemC == Item(IdStr(456), Null)
ItemE == Item(IdStr(789), Null)
ItemN == Item(Null, Null)

\* an API payload: no listing-like object, one, or four (one more than the
\* limiter runs at a time)
ApiPayloads == {<<ItemN>>, <<ItemC>>, <<ItemA, ItemB, ItemC, ItemE>>}

\* a search page: no listing, or one in its JSON-LD and one in its state
HtmlBodies ==
    {[jsonLd |-> <<>>, embedded |-> <<>>],
     [jsonLd |-> <<Path(<<W("for-sale"), W("details"), D(123)>>)>>,
      embedded |-> <<ItemC>>]}

LocA == Abs(<<W("for-sale"), W("details"), D(123)>>)
LocD == Abs(<<W("for-sale"), W("property"), W("london"), D(789)>>)
LocX == Abs(<<W("find-agents"), W("london")>>)

\* a url set: two listing urls and one that is none
UrlSets == {<<LocD, LocX, LocA>>}

\* a sitemap index: the sitemaps it names; the site's sitemaps are numbered,
\* 1..SitemapCandidates being the candidates fetchSitemapUrls starts from
IndexDocs == {<<2, 1>>}

(***************************************************************************)
(* State.                                                                  *)
(***************************************************************************)
VARIABLES
    \* run configuration (lines 917-947)
    targets, resultsWanted, maxPages, collectDetails, maxConcurrency,
    hasInputError,
    \* the orchestrator's position: pc, the index of the target, the page,
    \* and the state of fetchSitemapUrls while it walks
    pc, ti, page, sm,
    \* createLimiter: the queue, the tasks started and not settled, active
    queue, running, active,
    \* the limiter alone (SpecLimiter, where a task is the number of its
    \* submission): tasks submitted so far, the tasks in the order they were
    \* started, tasks whose promise settled and whose finally callback is
    \* pending, and the outcomes of the settled tasks and of their promises
    submitted, started, finishing, settled,
    \* the run's shared state: the Dataset is the bag of the Properties
    \* handed to pushData, each with the key its task was admitted under;
    \* of stats only listingsSaved is kept (pagesProcessed and methodsUsed
    \* are written for the report and never read by the run)
    seen, saved, stats, errorLog, emitted,
    \* history: whether the input named a url, what the last step was
    \* ("zero": a page without listings, "pageThrow", "taskThrow": a task of
    \* the awaited batch threw, "orphanThrow": a task of an abandoned batch
    \* threw, "other"), how often each key passed the dedup gate, the keys
    \* the gate turned away as seen in the last step, the report
    noUrlInput, event, admitted, rejected, summary,
    \* the number of awaits that threw so far
    faults,
    \* history: the maxConcurrency field of the input (NotGiven when the
    \* input has none); main.js never reads it
    inputMaxConcurrency,
    \* a helper function called on its own: the arguments of the call and
    \* the value it returned (NoCall when there is none)
    callArgs, callResult,
    \* the loop of extractListingsFromApiResponse called on its own: stack,
    \* visited, safety and listings, where the call stands (pc), and, as
    \* history, how often each array and object was expanded
    worklist,
    \* the module-level list recordBlockEvent appends to, and the number of
    \* calls of recordBlockEvent so far
    BLOCK_EVENTS, blockCalls

cfgVars == <<targets, resultsWanted, maxPages, collectDetails, maxConcurrency,
             hasInputError, noUrlInput, inputMaxConcurrency>>
callVars == <<callArgs, callResult, worklist>>
NoWorklist == [pc |-> "idle", stack |-> <<>>, visited |-> {}, safety |-> 0,
               listings |-> <<>>, expanded |-> <<>>]
blockVars == <<BLOCK_EVENTS, blockCalls>>
NoCall == [fn |-> "none"]
orchVars == <<pc, ti, page, sm, summary>>
limVars == <<queue, running, active>>
limOnlyVars == <<submitted, started, finishing, settled>>
runVars == <<seen, saved, stats, errorLog, emitted, admitted>>
vars == <<cfgVars, orchVars, limVars, limOnlyVars, runVars, event, rejected, faults,
          callVars, blockVars>>

(***************************************************************************)
(* Input validation and run configuration.                                 *)
(***************************************************************************)
\* Array.isArray(input.startUrls) && input.startUrls.length ? ... : null,
\* null being <<>>
StartUrlsOf(input) == input.startUrls

\* startUrl read without the default
StartUrlOf_NoDefault(input) == input.startUrl

StartUrlOf(input) ==
    Or(input.startUrl,
       IF StartUrlsOf(input) # <<>> THEN Null ELSE DEFAULT_START_URL)

HasInputError(input) == StartUrlOf(input) = Null /\ StartUrlsOf(input) = <<>>

TargetsOf(input) ==
    IF StartUrlsOf(input) # <<>> THEN StartUrlsOf(input)
    ELSE <<StartUrlOf(input)>>

\* Math.max(1, n)
AtLeastOne(n) == IF n < 1 THEN 1 ELSE n

\* an input without a maxConcurrency field
NotGiven == 0

\* targets are well-formed absolute search URLs, as the README requires
Inputs ==
    [startUrl : {Null, OtherStartUrl},
     startUrls : {[i \in 1..n |-> OtherStartUrl] : n \in 0..MaxTargets},
     results_wanted : 0..MaxWanted,
     max_pages : 0..MaxPagesIn,
     collectDetails : BOOLEAN,
     maxConcurrency : {NotGiven}]


NoSm == [ci |-> 0, cur |-> 0, stack |-> <<>>, urls |-> <<>>, limit |-> 0]
NoSummary == [written |-> FALSE, listingsSaved |-> 0, pending |-> 0]

\* the state of a run of main() on `input`, up to the creation of the limiter
InitRun(input) ==
    /\ targets = TargetsOf(input)
    /\ hasInputError = HasInputError(input)
    /\ noUrlInput = (input.startUrl = Null /\ input.startUrls = <<>>)
    /\ resultsWanted = AtLeastOne(input.results_wanted)
    /\ maxPages = AtLeastOne(input.max_pages)
    /\ collectDetails = input.collectDetails
    /\ inputMaxConcurrency = input.maxConcurrency
    /\ maxConcurrency = DEFAULT_MAX_CONCURRENCY
    /\ pc = "start" /\ ti = 0 /\ page = 0 /\ sm = NoSm
    /\ queue = <<>> /\ running = <<>> /\ active = 0
    /\ submitted = 0 /\ started = <<>> /\ finishing = {} /\ settled = <<>>
    /\ seen = {} /\ saved = 0
    /\ stats = [listingsSaved |-> 0]
    /\ errorLog = <<>> /\ emitted = EmptyBag
    /\ admitted = EmptyBag /\ rejected = {} /\ event = "other"
    /\ summary = NoSummary
    /\ faults = 0
    /\ callArgs = NoCall /\ callResult = NoCall /\ worklist = NoWorklist
    /\ BLOCK_EVENTS = <<>> /\ blockCalls = 0

Init == \E input \in Inputs : InitRun(input)

(***************************************************************************)
(* createLimiter and the body of a listing task.                           *)
(***************************************************************************)
\* next() without the test of active
LimiterCanStart_Unbounded(act, q, n) == Len(q) # 0

\* next(): "if (active >= maxConcurrency || queue.length === 0) return"
LimiterCanStart(act, q, n) == ~(act >= n \/ Len(q) = 0)

Task(strat, i, listing) ==
    [strat |-> strat, ti |-> i, listing |-> listing, pc |-> "queued",
     awaited |-> TRUE]

\* the key of a task: listing.listingId || listing.url for the json-api and
\* html strategies, extractListingId(url) || url for the sitemap strategy
TaskKey(t) ==
    IF t.strat = "sitemap"
    THEN Or(extractListingId(t.listing.url), t.listing.url)
    ELSE StubKey(t.listing)

\* a task without the test of the quota
QuotaMet_Never(s) == FALSE

\* "if (saved >= resultsWanted) return"
QuotaMet(s) == s >= resultsWanted

\* "if (!key || seen.has(key)) return" (the sitemap task tests seen only)
GateRejects(t, key, seenSet) ==
    IF t.strat = "sitemap" THEN key \in seenSet
    ELSE key = Null \/ key \in seenSet

\* the gate without "seen.add(key)"
GateAdmit_Forget(key, seenSet) == seenSet

\* "seen.add(key)", executed right after the test
GateAdmit(key, seenSet) == seenSet \cup {key}

\* whether the task awaits fetchListingDetail before it builds the Property
FetchesDetail(t) ==
    IF t.strat = "sitemap" THEN TRUE
    ELSE collectDetails /\ t.listing.url # Null

Emit(t, out) ==
    out (+) SetToBag({[property |-> buildProperty(t.listing, parseDetailHtml, t.strat),
                       key |-> TaskKey(t)]})

\* The task's code from its start to its first await, on the shared state
\* w = [seen, emitted, admitted, rejected] with `s` the value of saved.  The
\* result
\* pc is "returned" (the task is over), "detail" (it awaits
\* fetchListingDetail) or "push" (it awaits Dataset.pushData).
TaskPrefix(t, w, s) ==
    LET key == TaskKey(t)
    IN  IF QuotaMet(s)
        THEN [pc |-> "returned", w |-> w]
        ELSE IF GateRejects(t, key, w.seen)
        THEN [pc |-> "returned",
              w |-> [w EXCEPT !.rejected = IF key \in w.seen THEN @ \cup {key} ELSE @]]
        ELSE LET w1 == [w EXCEPT !.seen = GateAdmit(key, w.seen),
                                 !.admitted = w.admitted (+) SetToBag({key})]
             IN  IF FetchesDetail(t)
                 THEN [pc |-> "detail", w |-> w1]
                 ELSE [pc |-> "push",
                       w |-> [w1 EXCEPT !.emitted = Emit(t, w1.emitted)]]

\* next() called until it returns without starting a task.  A task that
\* returns before its first await resolves at once and its finally callback
\* gives the slot back within the same macrotask, so only tasks that reach
\* an await stay in `run`.
RECURSIVE Drain(_, _, _, _)
Drain(q, run, w, s) ==
    IF ~LimiterCanStart(Len(run), q, maxConcurrency)
    THEN [queue |-> q, running |-> run, w |-> w]
    ELSE CHOOSE result \in
             {IF r.pc = "returned"
              THEN Drain(rest, run, r.w, s)
              ELSE Drain(rest, Append(run, [t EXCEPT !.pc = r.pc]), r.w, s) :
                  t \in {Head(q)}, rest \in {Tail(q)},
                  r \in {TaskPrefix(Head(q), w, s)}} : TRUE

Orphan(ts) == [i \in 1..Len(ts) |-> [ts[i] EXCEPT !.awaited = FALSE]]
\* a batch that is not awaited: Promise.all(tasks) without await
AnyAwaited_None(ts) == FALSE
AnyAwaited(ts) == \E i \in 1..Len(ts) : ts[i].awaited
RemoveAt(ts, k) == [i \in 1..(Len(ts) - 1) |-> IF i < k THEN ts[i] ELSE ts[i + 1]]

(***************************************************************************)
(* The orchestrator's control flow (lines 953-1083): where it next waits,  *)
(* given the value `s` of saved.                                           *)
(***************************************************************************)
Pos(p, i, pg) == [pc |-> p, ti |-> i, page |-> pg]

\* "for (const target of targets) { if (saved >= resultsWanted) break; ..."
\* then the json-api loop, whose first test passes: maxPages >= 1
TargetLoop(i, s) ==
    IF i > Len(targets) \/ s >= resultsWanted THEN Pos("report", i, 0)
    ELSE Pos("apiFetch", i, 1)

\* "if (saved < resultsWanted && useSitemap)"
SitemapEntry(i, s) ==
    IF s < resultsWanted THEN Pos("smFetch", i, 0) ELSE TargetLoop(i + 1, s)

\* "for (page = ...; page <= maxPages && saved < resultsWanted; ...)"
HtmlLoop(i, pg, s) ==
    IF pg <= maxPages /\ s < resultsWanted THEN Pos("htmlFetch", i, pg)
    ELSE SitemapEntry(i, s)

\* "if (saved < resultsWanted && useHtmlFallback)"
HtmlEntry(i, s) ==
    IF s < resultsWanted THEN HtmlLoop(i, 1, s) ELSE SitemapEntry(i, s)

ApiLoop(i, pg, s) ==
    IF pg <= maxPages /\ s < resultsWanted THEN Pos("apiFetch", i, pg)
    ELSE HtmlEntry(i, s)

Method(p) ==
    IF p \in {"apiFetch", "apiBatch"} THEN "json-api"
    ELSE IF p \in {"htmlFetch", "htmlBatch"} THEN "html"
    ELSE "sitemap"

\* a break that leaves the loop over the targets as well
AfterStrategy_Abort(p, i, s) == Pos("report", i, 0)

\* a break out of a strategy's loop, or the end of its catch block
AfterStrategy(p, i, s) ==
    IF Method(p) = "json-api" THEN HtmlEntry(i, s)
    ELSE IF Method(p) = "html" THEN SitemapEntry(i, s)
    ELSE TargetLoop(i + 1, s)

\* after "await Promise.all(tasks)" resolved
AfterBatch(p, i, pg, s) ==
    IF Method(p) = "json-api" THEN ApiLoop(i, pg + 1, s)
    ELSE IF Method(p) = "html" THEN HtmlLoop(i, pg + 1, s)
    ELSE TargetLoop(i + 1, s)

FetchPcs == {"apiFetch", "htmlFetch", "smFetch"}
BatchPcs == {"apiBatch", "htmlBatch", "smBatch"}
BatchPc(p) ==
    IF Method(p) = "json-api" THEN "apiBatch"
    ELSE IF Method(p) = "html" THEN "htmlBatch"
    ELSE "smBatch"

\* fetchSitemapUrls called with limit = resultsWanted - saved
SmStart(s) ==
    [ci |-> 1, cur |-> 1, stack |-> <<>>, urls |-> <<>>, limit |-> resultsWanted - s]

\* the orchestrator runs on to position `pos` and waits there
OrchMove(pos, s) ==
    /\ pc' = pos.pc
    /\ ti' = pos.ti
    /\ page' = pos.page
    /\ sm' = IF pos.pc = "smFetch" THEN SmStart(s) ELSE NoSm

ErrorEntry(p, pg) == [method |-> Method(p), page |-> pg]

(***************************************************************************)
(* The rest of a macrotask: queued tasks are started while slots are free, *)
(* and the orchestrator, when the batch it awaits has been rejected        *)
(* (`rej`: a task of it threw in this step) or has resolved, runs on to    *)
(* its next await.  `p` is the orchestrator's position, q0, run0 and w0    *)
(* the limiter and the shared state, `s` saved and `st` stats as the step  *)
(* left them.                                                              *)
(***************************************************************************)
Finish(p, q0, run0, w0, s, st, rej) ==
    \E d \in {Drain(q0, run0, w0, s)} :
    LET caught == rej /\ p \in BatchPcs
        resolved == ~rej /\ p \in BatchPcs /\ ~AnyAwaited(d.queue \o d.running)
    IN  /\ seen' = d.w.seen
        /\ emitted' = d.w.emitted
        /\ admitted' = d.w.admitted
        /\ rejected' = d.w.rejected
        /\ queue' = IF caught THEN Orphan(d.queue) ELSE d.queue
        /\ running' = IF caught THEN Orphan(d.running) ELSE d.running
        /\ active' = Len(d.running)
        /\ errorLog' = IF caught THEN Append(errorLog, ErrorEntry(p, page))
                       ELSE errorLog
        /\ stats' = st
        /\ IF caught THEN OrchMove(AfterStrategy(p, ti, s), s)
           ELSE IF resolved THEN OrchMove(AfterBatch(p, ti, page, s), s)
           ELSE /\ pc' = p
                /\ sm' = IF p \in BatchPcs THEN NoSm ELSE sm
                /\ UNCHANGED <<ti, page>>

\* the shared state at the start of a step
World == [seen |-> seen, emitted |-> emitted, admitted |-> admitted, rejected |-> {}]

\* Actor.getInput() returned: input validation, then the first target
Start ==
    /\ pc = "start"
    /\ IF hasInputError
       THEN /\ pc' = "inputError"
            /\ UNCHANGED <<ti, page, sm>>
       ELSE OrchMove(TargetLoop(1, saved), saved)
    /\ event' = "other" /\ rejected' = {}
    /\ UNCHANGED <<cfgVars, callVars, blockVars, summary, limVars, limOnlyVars,
                   runVars, faults>>

\* the page loop with "continue" in place of "break" on an empty page
PageListings_Continue(listings) ==
    IF listings = <<>>
    THEN /\ event' = "zero" /\ rejected' = {}
         /\ OrchMove(AfterBatch(pc, ti, page, saved), saved)
         /\ UNCHANGED <<cfgVars, callVars, blockVars, summary, limVars,
                        limOnlyVars, runVars, faults>>
    ELSE /\ event' = "other"
         /\ Finish(BatchPc(pc),
                   queue \o [i \in 1..Len(listings) |-> Task(Method(pc), ti, listings[i])],
                   running, World, saved, stats, FALSE)
         /\ UNCHANGED <<cfgVars, callVars, blockVars, summary, limOnlyVars,
                        saved, faults>>

\* a strategy's page gave `listings`: break when there is none, otherwise
\* one limiter task per listing and "await Promise.all(tasks)"
PageListings(listings) ==
    IF listings = <<>>
    THEN /\ event' = "zero" /\ rejected' = {}
         /\ OrchMove(AfterStrategy(pc, ti, saved), saved)
         /\ UNCHANGED <<cfgVars, callVars, blockVars, summary, limVars,
                        limOnlyVars, runVars, faults>>
    ELSE /\ event' = "other"
         /\ Finish(BatchPc(pc),
                   queue \o [i \in 1..Len(listings) |-> Task(Method(pc), ti, listings[i])],
                   running, World, saved, stats, FALSE)
         /\ UNCHANGED <<cfgVars, callVars, blockVars, summary, limOnlyVars,
                        saved, faults>>

\* the page fetch threw: the strategy's catch block
PageThrows ==
    /\ faults < MaxFaults
    /\ faults' = faults + 1
    /\ event' = "pageThrow" /\ rejected' = {}
    /\ errorLog' = Append(errorLog, ErrorEntry(pc, page))
    /\ OrchMove(AfterStrategy(pc, ti, saved), saved)
    /\ UNCHANGED <<cfgVars, callVars, blockVars, summary, limVars, limOnlyVars,
                   seen, saved, stats, emitted, admitted>>

\* fetchListingsViaApi returned or threw (its candidate endpoints are tried
\* in turn within the one await of the orchestrator)
ApiReturn ==
    /\ pc = "apiFetch"
    /\ \/ \E payload \in ApiPayloads :
              \E listings \in {extractListingsFromApiResponse(payload)} :
                  PageListings(listings)
       \/ PageThrows

\* fetchListingsViaHtml returned or threw
HtmlReturn ==
    /\ pc = "htmlFetch"
    /\ \/ \E body \in HtmlBodies :
              \E listings \in {extractListingsFromHtml(body)} :
                  PageListings(listings)
       \/ PageThrows

(***************************************************************************)
(* fetchSitemapUrls.  sm.ci is the index of the candidate being walked,    *)
(* sm.cur the sitemap being requested, sm.urls is listingUrls in insertion *)
(* order, and sm.stack holds, for each index document whose loop still has *)
(* entries to visit, those entries (the innermost index first).  An index  *)
(* whose loop has no entry left only returns when the call it awaits       *)
(* returns, so it is not kept on the stack.                                *)
(***************************************************************************)
\* the $('url > loc').each(...) callback over the document's locs
RECURSIVE CollectLocs(_, _, _)
CollectLocs(locs, urls, limit) ==
    IF locs = <<>> THEN urls
    ELSE CHOOSE result \in
             {IF loc = Null \/ ~isSitemapListingLoc(loc)
              THEN CollectLocs(rest, urls, limit)
              ELSE IF Len(added) >= limit THEN added
              ELSE CollectLocs(rest, added, limit) :
                  loc \in {Head(locs)}, rest \in {Tail(locs)},
                  added \in {IF \E i \in 1..Len(urls) : urls[i] = Head(locs)
                              THEN urls ELSE Append(urls, Head(locs))}} : TRUE

\* from the return of one document to the next requestPage, or to the end
\* of the walk: the "for (const nestedUrl of nested)" loops of the pending
\* indexes, then the loop over sitemapCandidates
RECURSIVE SmAdvance(_)
SmAdvance(m) ==
    IF m.stack # <<>>
    THEN IF Len(m.urls) >= m.limit
         THEN SmAdvance([m EXCEPT !.stack = Tail(@)])
         ELSE [fetch |-> TRUE,
               m |-> [m EXCEPT !.cur = Head(Head(m.stack)),
                               !.stack = IF Len(Head(@)) > 1
                                         THEN <<Tail(Head(@))>> \o Tail(@)
                                         ELSE Tail(@)]]
    ELSE IF m.ci + 1 > SitemapCandidates \/ Len(m.urls) >= m.limit
         THEN [fetch |-> FALSE, m |-> m]
         ELSE [fetch |-> TRUE, m |-> [m EXCEPT !.ci = @ + 1, !.cur = m.ci + 1]]

\* the walk goes on from state m: another document is requested, or
\* fetchSitemapUrls returns and the orchestrator schedules the urls
SmContinue(m) ==
    \E a \in {SmAdvance(m)} :
    LET urls == SubSeq(a.m.urls, 1, IF Len(a.m.urls) < m.limit THEN Len(a.m.urls) ELSE m.limit)
    IN  IF a.fetch
        THEN /\ event' = "other" /\ rejected' = {}
             /\ sm' = a.m
             /\ UNCHANGED <<cfgVars, callVars, blockVars, pc, ti, page, summary,
                            limVars, limOnlyVars, runVars, faults>>
        ELSE IF urls = <<>>
        THEN /\ event' = "zero" /\ rejected' = {}
             /\ OrchMove(TargetLoop(ti + 1, saved), saved)
             /\ UNCHANGED <<cfgVars, callVars, blockVars, summary, limVars,
                            limOnlyVars, runVars, faults>>
        ELSE /\ event' = "other"
             /\ Finish("smBatch",
                       queue \o [i \in 1..Len(urls) |->
                                    Task("sitemap", ti, [listingId |-> Null, url |-> urls[i]])],
                       running, World, saved, stats, FALSE)
             /\ UNCHANGED <<cfgVars, callVars, blockVars, summary, limOnlyVars,
                            saved, faults>>

\* the requestPage of collectFromSitemap returned: not a 200 with a body,
\* a sitemap index, or a url set; or it threw
SitemapReturn ==
    /\ pc = "smFetch"
    /\ \/ SmContinue(sm)
       \/ \E nested \in IndexDocs :
              /\ Len(nested) <= 1 \/ Len(sm.stack) < MaxDepth
              /\ \E m \in {[sm EXCEPT !.stack = <<nested>> \o @]} : SmContinue(m)
       \/ \E locs \in UrlSets :
              \E m \in {[sm EXCEPT !.urls = CollectLocs(locs, @, sm.limit)]} :
                  SmContinue(m)
       \/ PageThrows

(***************************************************************************)
(* The awaits of a listing task.                                           *)
(***************************************************************************)
\* the await of running[k] threw: the task's promise is rejected
TaskThrows(k) ==
    /\ faults < MaxFaults
    /\ faults' = faults + 1
    /\ event' = IF running[k].awaited THEN "taskThrow" ELSE "orphanThrow"
    /\ Finish(pc, queue, RemoveAt(running, k), World, saved, stats,
              running[k].awaited)
    /\ UNCHANGED <<cfgVars, callVars, blockVars, summary, limOnlyVars, saved>>

\* fetchListingDetail returned (buildProperty, then pushData is called) or
\* threw (the task's promise is rejected)
DetailReturn ==
    /\ pc \notin {"start", "inputError", "exited"}
    /\ \E k \in 1..Len(running) :
        /\ running[k].pc = "detail"
        /\ \/ /\ event' = "other" /\ rejected' = {}
              /\ running' = [running EXCEPT ![k].pc = "push"]
              /\ emitted' = Emit(running[k], emitted)
              /\ UNCHANGED <<cfgVars, callVars, blockVars, orchVars, queue,
                             active, limOnlyVars,
                             seen, saved, stats, errorLog, admitted, faults>>
           \/ TaskThrows(k)

\* Dataset.pushData returned ("saved += 1; stats.listingsSaved = saved") or
\* threw
PushReturn ==
    /\ pc \notin {"start", "inputError", "exited"}
    /\ \E k \in 1..Len(running) :
        /\ running[k].pc = "push"
        /\ \/ /\ event' = "other"
              /\ saved' = saved + 1
              /\ Finish(pc, queue, RemoveAt(running, k), World, saved + 1,
                        [stats EXCEPT !.listingsSaved = saved + 1], FALSE)
              /\ UNCHANGED <<cfgVars, callVars, blockVars, summary, limOnlyVars, faults>>
           \/ TaskThrows(k)

(***************************************************************************)
(* End of the run (lines 1085-1113).                                       *)
(***************************************************************************)
\* the targets are done: ERROR_LOG is written when there are errors, then
\* saved is read for RUN_SUMMARY or for the zero-saved status message
Report ==
    /\ pc = "report"
    /\ pc' = "done"
    /\ summary' = [written |-> TRUE, listingsSaved |-> saved,
                   pending |-> Len(queue) + Len(running)]
    /\ event' = "other" /\ rejected' = {}
    /\ UNCHANGED <<cfgVars, callVars, blockVars, ti, page, sm, limVars,
                   limOnlyVars, runVars, faults>>

\* finally: closeBrowser and Actor.exit(), which ends the process
Exit ==
    /\ pc \in {"done", "inputError"}
    /\ pc' = "exited"
    /\ event' = "other" /\ rejected' = {}
    /\ UNCHANGED <<cfgVars, callVars, blockVars, ti, page, sm, summary,
                   limVars, limOnlyVars, runVars,
                   faults>>

Next ==
    \/ Start
    \/ ApiReturn
    \/ HtmlReturn
    \/ SitemapReturn
    \/ DetailReturn
    \/ PushReturn
    \/ Report
    \/ Exit

Spec == Init /\ [][Next]_vars

\* runs of one target whose input asks for a concurrency, or for none
InitWithConcurrency ==
    \E input \in [startUrl : {OtherStartUrl},
                   startUrls : {<<>>},
                   results_wanted : {MaxWanted},
                   max_pages : {1},
                   collectDetails : {FALSE},
                   maxConcurrency : {NotGiven} \cup 1..MaxConcIn] :
        InitRun(input)

SpecWithConcurrency == InitWithConcurrency /\ [][Next]_vars

(***************************************************************************)
(* The run under fairness: every fetch and every pushData call returns or  *)
(* throws in finite time.  One target, one page and a quota of one keep    *)
(* the liveness check small.                                               *)
(***************************************************************************)
InitFair == Init /\ Len(targets) = 1 /\ resultsWanted = 1 /\ maxPages = 1

SpecFair ==
    /\ InitFair
    /\ [][Next]_vars
    /\ WF_vars(Start)
    /\ WF_vars(ApiReturn)
    /\ WF_vars(HtmlReturn)
    /\ WF_vars(SitemapReturn)
    /\ WF_vars(DetailReturn)
    /\ WF_vars(PushReturn)
    /\ WF_vars(Report)
    /\ WF_vars(Exit)

(***************************************************************************)
(* createLimiter alone (lines 150-170), one call or promise reaction per   *)
(* step.  A task is the number of its submission; `running` holds the      *)
(* tasks started whose promise has not settled, `finishing` those settled  *)
(* whose finally callback has not run yet (they still count in `active`).  *)
(***************************************************************************)
MaxN == 3              \* createLimiter(N) with N in 1..MaxN
MaxTasksL == 4         \* at most this many tasks are submitted

restVars == <<targets, resultsWanted, maxPages, collectDetails, hasInputError,
              noUrlInput, pc, ti, page, sm, summary, seen, saved, stats,
              errorLog, emitted, admitted, event, rejected, faults,
              inputMaxConcurrency, callVars, blockVars>>

InitLimiter ==
    /\ maxConcurrency \in 1..MaxN
    /\ queue = <<>> /\ running = <<>> /\ active = 0
    /\ submitted = 0 /\ started = <<>> /\ finishing = {} /\ settled = <<>>
    /\ targets = <<>> /\ resultsWanted = 1 /\ maxPages = 1
    /\ collectDetails = FALSE /\ hasInputError = FALSE /\ noUrlInput = FALSE
    /\ pc = "limiter" /\ ti = 0 /\ page = 0 /\ sm = NoSm /\ summary = NoSummary
    /\ seen = {} /\ saved = 0 /\ stats = [listingsSaved |-> 0]
    /\ errorLog = <<>> /\ emitted = EmptyBag /\ admitted = EmptyBag
    /\ event = "other" /\ rejected = {} /\ faults = 0
    /\ inputMaxConcurrency = NotGiven
    /\ callArgs = NoCall /\ callResult = NoCall /\ worklist = NoWorklist
    /\ BLOCK_EVENTS = <<>> /\ blockCalls = 0

\* next() that drops the head of the queue when no slot is free
next_DropWhenFull(act, q) ==
    IF LimiterCanStart(act, q, maxConcurrency)
    THEN /\ active' = act + 1
         /\ queue' = Tail(q)
         /\ running' = Append(running, Head(q))
         /\ started' = Append(started, Head(q))
    ELSE /\ active' = act
         /\ queue' = IF q = <<>> THEN q ELSE Tail(q)
         /\ UNCHANGED <<running, started>>

\* next() that takes the task submitted last: queue.pop() for queue.shift()
next_Lifo(act, q) ==
    IF LimiterCanStart(act, q, maxConcurrency)
    THEN /\ active' = act + 1
         /\ queue' = SubSeq(q, 1, Len(q) - 1)
         /\ running' = Append(running, q[Len(q)])
         /\ started' = Append(started, q[Len(q)])
    ELSE /\ active' = act
         /\ queue' = q
         /\ UNCHANGED <<running, started>>

\* one call of next(), `act` and `q` being active and the queue at the call
next(act, q) ==
    IF LimiterCanStart(act, q, maxConcurrency)
    THEN /\ active' = act + 1
         /\ queue' = Tail(q)
         /\ running' = Append(running, Head(q))
         /\ started' = Append(started, Head(q))
    ELSE /\ active' = act
         /\ queue' = q
         /\ UNCHANGED <<running, started>>

\* ".then(resolve).catch(reject)": what the returned promise settles with
PromiseOutcome(taskOutcome) ==
    IF taskOutcome = "fulfilled" THEN "fulfilled" ELSE "rejected"

\* limiter(task): "queue.push({ task, resolve, reject }); next()"
LSubmit ==
    /\ submitted < MaxTasksL
    /\ submitted' = submitted + 1
    /\ next(active, Append(queue, submitted + 1))
    /\ UNCHANGED <<maxConcurrency, finishing, settled, restVars>>

\* the promise of a started task settles and, through then / catch, the
\* promise the limiter returned for it
LSettle ==
    \E k \in 1..Len(running), o \in {"fulfilled", "rejected"} :
        /\ running' = RemoveAt(running, k)
        /\ finishing' = finishing \cup {running[k]}
        /\ settled' = Append(settled, [task |-> running[k], outcome |-> o,
                                       promise |-> PromiseOutcome(o)])
        /\ UNCHANGED <<maxConcurrency, queue, active, submitted, started, restVars>>

\* the slot given back in a then callback, which a rejected task skips
LFinally_OnlyFulfilled ==
    \E t \in finishing :
        /\ finishing' = finishing \ {t}
        /\ IF \E i \in 1..Len(settled) :
                  settled[i].task = t /\ settled[i].outcome = "fulfilled"
           THEN next(active - 1, queue)
           ELSE UNCHANGED <<active, queue, running, started>>
        /\ UNCHANGED <<maxConcurrency, submitted, settled, restVars>>

\* the finally callback of a settled task: "active -= 1; next()"
LFinally ==
    \E t \in finishing :
        /\ finishing' = finishing \ {t}
        /\ next(active - 1, queue)
        /\ UNCHANGED <<maxConcurrency, submitted, settled, restVars>>

NextLimiter == LSubmit \/ LSettle \/ LFinally

SpecLimiter == InitLimiter /\ [][NextLimiter]_vars

\* the limiter when every started task settles and every promise reaction
\* runs
SpecLimiterFair ==
    /\ InitLimiter
    /\ [][NextLimiter]_vars
    /\ WF_vars(LSettle)
    /\ WF_vars(LFinally)

(***************************************************************************)
(* Helper functions called on their own (SpecHelpers).  No run is in       *)
(* progress: the variables of the run keep the values of NoRun, callArgs   *)
(* holds the function called and its arguments, callResult the value it    *)
(* returned.                                                               *)
(***************************************************************************)
allRunVars == <<cfgVars, orchVars, limVars, limOnlyVars, runVars, event, rejected,
                faults>>

NoRun ==
    /\ maxConcurrency = DEFAULT_MAX_CONCURRENCY
    /\ inputMaxConcurrency = NotGiven
    /\ queue = <<>> /\ running = <<>> /\ active = 0
    /\ submitted = 0 /\ started = <<>> /\ finishing = {} /\ settled = <<>>
    /\ targets = <<>> /\ resultsWanted = 1 /\ maxPages = 1
    /\ collectDetails = FALSE /\ hasInputError = FALSE /\ noUrlInput = FALSE
    /\ pc = "call" /\ ti = 0 /\ page = 0 /\ sm = NoSm /\ summary = NoSummary
    /\ seen = {} /\ saved = 0 /\ stats = [listingsSaved |-> 0]
    /\ errorLog = <<>> /\ emitted = EmptyBag /\ admitted = EmptyBag
    /\ event = "other" /\ rejected = {} /\ faults = 0

(***************************************************************************)
(* buildProperty.  JavaScript values of the fields a stub and a detail     *)
(* record share: null, undefined, strings and numbers.                     *)
(***************************************************************************)
JsNull == [t |-> "null", s |-> "", n |-> 0]
Str(s) == [t |-> "str", s |-> s, n |-> 0]
Num(n) == [t |-> "num", s |-> "", n |-> n]

Truthy(v) == (v.t = "str" /\ v.s # "") \/ (v.t = "num" /\ v.n # 0)

\* a || b
LogicalOr(a, b) == IF Truthy(a) THEN a ELSE b
\* a ?? b, undefined being [t |-> "undefined", s |-> "", n |-> 0]
Nullish(a, b) == IF a.t \notin {"null", "undefined"} THEN a ELSE b

(***************************************************************************)
(* extractUkPostcode.  A text is the sequence of its characters; a pattern *)
(* is a sequence of items: [k |-> "b"] is \b, [k |-> "$"] is $, and        *)
(* [k |-> "c", cls, min, max] stands for min to max characters of a class  *)
(* ("L": [A-Z], "D": \d, "LD": [A-Z\d], "S": \s), the patterns having the  *)
(* flag i.                                                                 *)
(***************************************************************************)
\* the letters, each with its upper-case form
UpperOf ==
    [c \in {"a", "b", "c", "d", "e", "f", "g", "h", "i", "j", "k", "l", "m",
            "n", "o", "p", "q", "r", "s", "t", "u", "v", "w", "x", "y", "z"} |->
        CASE c = "a" -> "A" [] c = "b" -> "B" [] c = "c" -> "C" [] c = "d" -> "D"
          [] c = "e" -> "E" [] c = "f" -> "F" [] c = "g" -> "G" [] c = "h" -> "H"
          [] c = "i" -> "I" [] c = "j" -> "J" [] c = "k" -> "K" [] c = "l" -> "L"
          [] c = "m" -> "M" [] c = "n" -> "N" [] c = "o" -> "O" [] c = "p" -> "P"
          [] c = "q" -> "Q" [] c = "r" -> "R" [] c = "s" -> "S" [] c = "t" -> "T"
          [] c = "u" -> "U" [] c = "v" -> "V" [] c = "w" -> "W" [] c = "x" -> "X"
          [] c = "y" -> "Y" [] c = "z" -> "Z"]

\* whether character c is of class cls ("w" being \w)
InClass(c, cls) ==
    LET letter == c \in DOMAIN UpperOf \/ \E l \in DOMAIN UpperOf : UpperOf[l] = c
        digit == c \in {"0", "1", "2", "3", "4", "5", "6", "7", "8", "9"}
    IN  CASE cls = "L" -> letter
          [] cls = "D" -> digit
          [] cls = "LD" -> letter \/ digit
          [] cls = "S" -> c \in {" ", "\t", "\n"}
          [] cls = "w" -> letter \/ digit \/ c = "_"

\* the position behind the match of the items k.. of `pat` that starts at
\* position pos of chars, or 0 when there is none; a class item takes as
\* many characters as the rest of the pattern allows (greedy, backtracking)
RECURSIVE MatchEnd(_, _, _, _)
MatchEnd(pat, k, chars, pos) ==
    IF k > Len(pat) THEN pos
    ELSE IF pat[k].k = "b"
    THEN IF (pos > 1 /\ InClass(chars[pos - 1], "w"))
                # (pos <= Len(chars) /\ InClass(chars[pos], "w"))
         THEN MatchEnd(pat, k + 1, chars, pos)
         ELSE 0
    ELSE IF pat[k].k = "$"
    THEN IF pos = Len(chars) + 1 THEN MatchEnd(pat, k + 1, chars, pos) ELSE 0
    ELSE CHOOSE result \in
             {IF good = {} THEN 0
              ELSE (CHOOSE e \in good : \A f \in good : f[1] <= e[1])[2] :
                  good \in
                      {{e \in {<<c, MatchEnd(pat, k + 1, chars, pos + c)>> :
                                  c \in {n \in pat[k].min..pat[k].max :
                                            /\ pos + n - 1 <= Len(chars)
                                            /\ \A j \in pos..(pos + n - 1) :
                                                   InClass(chars[j], pat[k].cls)}} :
                           e[2] # 0}}} : TRUE

\* text.match(pattern)[0] for a pattern without the flag g: the match that
\* starts leftmost, <<>> when there is none (null)
RegexMatch(pat, chars) ==
    CHOOSE result \in
        {IF starts = {} THEN <<>>
         ELSE SubSeq(chars, Min(starts), MatchEnd(pat, 1, chars, Min(starts)) - 1) :
             starts \in {{i \in 1..(Len(chars) + 1) : MatchEnd(pat, 1, chars, i) # 0}}} :
        TRUE

\* String.prototype.toUpperCase
toUpperCase(chars) ==
    [i \in 1..Len(chars) |->
        IF chars[i] \in DOMAIN UpperOf THEN UpperOf[chars[i]] ELSE chars[i]]

\* the string of a sequence of characters
RECURSIVE Join(_)
Join(chars) ==
    IF chars = <<>> THEN ""
    ELSE CHOOSE s \in {Head(chars) \o rest : rest \in {Join(Tail(chars))}} : TRUE

\* texts with and without a postcode: a start, an outcode, a gap, an incode
\* and an end, each of which may be missing; and the addresses of the
\* stubs and detail records of the model
PostcodeTexts ==
    {a \o b \o c \o d \o e :
        a \in {<<>>, <<"N", "1", " ">>,
               <<"S", "h", "o", "r", "e", "d", "i", "t", "c", "h", ",", " ",
                 "L", "o", "n", "d", "o", "n", " ">>},
        b \in {<<>>, <<"E", "1">>, <<"S", "W", "1", "A">>, <<"e", "c", "1">>,
               <<"W", "1", "2">>},
        c \in {<<>>, <<" ">>, <<" ", " ">>},
        d \in {<<>>, <<"6", "A", "N">>, <<"1", "a", "a">>, <<"6", "A">>},
        e \in {<<>>, <<" ">>, <<",", " ", "U", "K">>}}
    \cup {<<"1", "2", " ", "H", "i", "g", "h", " ", "S", "t", ",", " ",
            "L", "e", "e", "d", "s">>,
          <<"1", " ", "P", "a", "r", "k", " ", "R", "o", "w", ",", " ",
            "L", "e", "e", "d", "s">>,
          <<"3", " ", "M", "i", "l", "l", " ", "L", "a", "n", "e", ",", " ",
            "L", "e", "e", "d", "s", " ", "l", "s", "1", " ", "4", "a", "b">>}

\* String(value): the characters of each string of the model
StringChars == {<<Join(chars), chars>> : chars \in PostcodeTexts}

\* /\b[A-Z]{1,2}\d[A-Z\d]?\s?\d[A-Z]{2}\b/i
extractUkPostcode(value) ==
    IF ~Truthy(value) \/ value.t # "str" THEN JsNull
    ELSE \* a number has no letter: no match
         CHOOSE result \in
             {IF match = <<>> THEN JsNull ELSE Str(Join(toUpperCase(match))) :
                 match \in
                     {RegexMatch(<<[k |-> "b"],
                                   [k |-> "c", cls |-> "L", min |-> 1, max |-> 2],
                                   [k |-> "c", cls |-> "D", min |-> 1, max |-> 1],
                                   [k |-> "c", cls |-> "LD", min |-> 0, max |-> 1],
                                   [k |-> "c", cls |-> "S", min |-> 0, max |-> 1],
                                   [k |-> "c", cls |-> "D", min |-> 1, max |-> 1],
                                   [k |-> "c", cls |-> "L", min |-> 2, max |-> 2],
                                   [k |-> "b"]>>,
                                 (CHOOSE p \in StringChars : p[1] = value.s)[2])}} :
             TRUE

\* extractUkPostcode of the Playwright version of the scraper: three
\* patterns tried in turn, the first match giving match[1], which in the
\* third pattern is the match without the white space at its end
PlaywrightExtractUkPostcode(value) ==
    IF ~Truthy(value) \/ value.t # "str" THEN JsNull
    ELSE LET outcode == <<[k |-> "b"],
                          [k |-> "c", cls |-> "L", min |-> 1, max |-> 2],
                          [k |-> "c", cls |-> "D", min |-> 1, max |-> 2],
                          [k |-> "c", cls |-> "L", min |-> 0, max |-> 1]>>
             incode == <<[k |-> "c", cls |-> "D", min |-> 1, max |-> 1],
                         [k |-> "c", cls |-> "L", min |-> 2, max |-> 2],
                         [k |-> "b"]>>
         IN  CHOOSE result \in
                 {IF m1 # <<>> THEN Str(Join(toUpperCase(m1)))
                  ELSE IF m2 # <<>> THEN Str(Join(toUpperCase(m2)))
                  ELSE IF m3 # <<>>
                       THEN Str(Join(toUpperCase(
                                SelectSeq(m3, LAMBDA c : ~InClass(c, "S")))))
                  ELSE JsNull :
                     text \in {(CHOOSE p \in StringChars : p[1] = value.s)[2]},
                     m1 \in {RegexMatch(outcode
                                 \o <<[k |-> "c", cls |-> "S", min |-> 1, max |-> 1000]>>
                                 \o incode,
                                 (CHOOSE p \in StringChars : p[1] = value.s)[2])},
                     m2 \in {RegexMatch(outcode \o incode,
                                 (CHOOSE p \in StringChars : p[1] = value.s)[2])},
                     m3 \in {RegexMatch(outcode
                                 \o <<[k |-> "c", cls |-> "S", min |-> 0, max |-> 1000],
                                      [k |-> "$"]>>,
                                 (CHOOSE p \in StringChars : p[1] = value.s)[2])}} :
                 TRUE

SharedFields ==
    {"title", "price", "address", "locality", "postalCode", "propertyType",
     "beds", "baths", "latitude", "longitude"}

\* buildProperty with the stub taking precedence over the detail record
PropertyFields_StubFirst(listing, detail) ==
    LET address == LogicalOr(LogicalOr(listing.address, detail.address), JsNull)
    IN  [title |-> LogicalOr(LogicalOr(listing.title, detail.title), JsNull),
         price |-> LogicalOr(LogicalOr(listing.price, detail.price), JsNull),
         address |-> address,
         locality |-> LogicalOr(LogicalOr(listing.locality, detail.locality), JsNull),
         postalCode |-> LogicalOr(LogicalOr(listing.postalCode, detail.postalCode),
                                  extractUkPostcode(address)),
         propertyType |-> LogicalOr(LogicalOr(listing.propertyType,
                                              detail.propertyType), JsNull),
         beds |-> Nullish(Nullish(listing.beds, detail.beds), JsNull),
         baths |-> Nullish(Nullish(listing.baths, detail.baths), JsNull),
         latitude |-> Nullish(Nullish(listing.latitude, detail.latitude), JsNull),
         longitude |-> Nullish(Nullish(listing.longitude, detail.longitude), JsNull)]

\* the fields of the Property that the stub and the detail record both carry
PropertyFields(listing, detail) ==
    LET address == LogicalOr(LogicalOr(detail.address, listing.address), JsNull)
    IN  [title |-> LogicalOr(LogicalOr(detail.title, listing.title), JsNull),
         price |-> LogicalOr(LogicalOr(detail.price, listing.price), JsNull),
         address |-> address,
         locality |-> LogicalOr(LogicalOr(detail.locality, listing.locality), JsNull),
         postalCode |-> LogicalOr(LogicalOr(detail.postalCode, listing.postalCode),
                                  extractUkPostcode(address)),
         propertyType |-> LogicalOr(LogicalOr(detail.propertyType,
                                              listing.propertyType), JsNull),
         beds |-> Nullish(Nullish(detail.beds, listing.beds), JsNull),
         baths |-> Nullish(Nullish(detail.baths, listing.baths), JsNull),
         latitude |-> Nullish(Nullish(detail.latitude, listing.latitude), JsNull),
         longitude |-> Nullish(Nullish(detail.longitude, listing.longitude), JsNull)]

\* the values normalizeListing can give a field of a stub: cleanText gives
\* null, "" (a text of white space) or a text; price is a text or a number;
\* parseNumber gives null or a number, 0 included; a coordinate is null or
\* truthy
StubValues(f) ==
    IF f = "address"
    THEN {JsNull, Str(""), Str("12 High St, Leeds"), Str("3 Mill Lane, Leeds ls1 4ab")}
    ELSE IF f \in {"title", "locality", "postalCode", "propertyType"}
         THEN {JsNull, Str(""), Str("stub")}
    ELSE IF f = "price" THEN {JsNull, Str("GBP 325,000"), Num(325000)}
    ELSE IF f \in {"beds", "baths"} THEN {JsNull, Num(0), Num(2)}
    ELSE {JsNull, Num(51)}

\* the values parseDetailHtml can give a field: pickFirst never returns "",
\* and the texts and prices it picks from are null or truthy; an address
\* with a postcode comes with a postalCode, so the address of a detail
\* record whose other fields are null has none
DetailValues(f) ==
    IF f = "address" THEN {JsNull, Str("1 Park Row, Leeds")}
    ELSE IF f \in {"title", "locality", "postalCode", "propertyType"}
         THEN {JsNull, Str("detail")}
    ELSE IF f = "price" THEN {JsNull, Str("GBP 330,000")}
    ELSE IF f \in {"beds", "baths"} THEN {JsNull, Num(0), Num(3)}
    ELSE {JsNull, Num(52)}

\* a stub, or a detail record, with identity (id, url), value v in field f,
\* address a, and null in its other fields; a null detail reads like the
\* record of nulls
RecordOf(id, url, f, v, a) ==
    [listingId |-> id, url |-> url,
     title |-> IF f = "title" THEN v ELSE JsNull,
     price |-> IF f = "price" THEN v ELSE JsNull,
     address |-> IF f = "address" THEN v ELSE a,
     locality |-> IF f = "locality" THEN v ELSE JsNull,
     postalCode |-> IF f = "postalCode" THEN v ELSE JsNull,
     propertyType |-> IF f = "propertyType" THEN v ELSE JsNull,
     beds |-> IF f = "beds" THEN v ELSE JsNull,
     baths |-> IF f = "baths" THEN v ELSE JsNull,
     latitude |-> IF f = "latitude" THEN v ELSE JsNull,
     longitude |-> IF f = "longitude" THEN v ELSE JsNull]

\* stubs with and without an id, with no url or a url of each kind
\* extractListingId tells apart; detail records likewise
BuildPropertyArgs ==
    UNION {{[fn |-> "buildProperty",
             listing |-> RecordOf(lid, lurl, f, lv, la),
             detail |-> RecordOf(did, durl, f, dv, JsNull),
             source |-> "json-api"] :
                lid \in {Null, IdStr(123)},
                lurl \in {Null, Path(<<W("for-sale"), W("details"), D(123)>>),
                          Rel(<<W("for-sale"), W("property"), W("london")>>),
                          Abs(<<W("new-homes"), D(654321)>>)},
                did \in {Null, IdStr(456)},
                durl \in {Null, Abs(<<W("for-sale"), W("details"), D(789)>>)},
                lv \in StubValues(f), dv \in DetailValues(f),
                la \in {JsNull, Str("3 Mill Lane, Leeds ls1 4ab")}} :
           f \in SharedFields}

CallBuildProperty ==
    /\ callArgs.fn = "buildProperty"
    /\ callResult = NoCall
    /\ callResult' =
           [fn |-> "buildProperty",
            identity |-> buildProperty(callArgs.listing, callArgs.detail,
                                       callArgs.source),
            fields |-> PropertyFields(callArgs.listing, callArgs.detail)]
    /\ UNCHANGED <<allRunVars, callArgs, worklist, blockVars>>

(***************************************************************************)
(* recordBlockEvent called again and again with the event of a blocked     *)
(* request.  The timestamp of an entry is the number of the call that      *)
(* stored it.                                                              *)
(***************************************************************************)
MaxBlockCalls == 60    \* recordBlockEvent is called at most this often

\* the length at which recordBlockEvent stops storing
BlockEventsCap == 50

\* the calls at lines 234, 238 and 288
BlockEventArgs ==
    {[fn |-> "recordBlockEvent", url |-> OtherStartUrl,
      statusCode |-> c, reason |-> r] :
         c \in {Num(403), JsNull, [t |-> "undefined", s |-> "", n |-> 0]},
         r \in {"HTTP_403", "challenge", "browser_challenge"}}

\* recordBlockEvent without the test of the length
recordBlockEvent_NoCap(events, ev, now) ==
    Append(events,
           [url |-> ev.url,
            statusCode |-> Nullish(ev.statusCode, JsNull),
            reason |-> ev.reason,
            timestamp |-> now])

recordBlockEvent(events, ev, now) ==
    IF Len(events) >= BlockEventsCap THEN events
    ELSE Append(events,
                [url |-> ev.url,
                 statusCode |-> Nullish(ev.statusCode, JsNull),
                 reason |-> ev.reason,
                 timestamp |-> now])

CallRecordBlockEvent ==
    /\ callArgs.fn = "recordBlockEvent"
    /\ blockCalls < MaxBlockCalls
    /\ blockCalls' = blockCalls + 1
    /\ BLOCK_EVENTS' = recordBlockEvent(BLOCK_EVENTS, callArgs, blockCalls + 1)
    /\ UNCHANGED <<allRunVars, callVars>>

(***************************************************************************)
(* detectBlockReason.  A body is a string, given as the sequence of the    *)
(* pieces of text it is made of, or a value that is not a string (a parsed *)
(* JSON payload).                                                          *)
(***************************************************************************)
Text(pieces) == [isString |-> TRUE, pieces |-> pieces]
NotAString == [isString |-> FALSE, pieces |-> <<>>]

\* the pieces of the model's bodies, each of them in lower case
toLowerCase(piece) ==
    IF piece = "Just a moment..." THEN "just a moment..."
    ELSE IF piece = "reCAPTCHA" THEN "recaptcha"
    ELSE IF piece = "Please enable JavaScript" THEN "please enable javascript"
    ELSE piece

\* /just a moment|verify you are human|captcha|enable javascript/i.test(body):
\* the pieces that, in lower case, contain one of the four phrases
HasChallengePhrase(body) ==
    \E i \in 1..Len(body.pieces) :
        toLowerCase(body.pieces[i]) \in
            {"just a moment...", "verify you are human", "recaptcha",
             "please enable javascript"}

\* `HTTP_${statusCode}` for the three statuses that are block signals
HttpReason == [c \in {403, 429, 503} |->
                  IF c = 403 THEN "HTTP_403" ELSE IF c = 429 THEN "HTTP_429"
                  ELSE "HTTP_503"]

Response(statusCode, body) ==
    [present |-> TRUE, statusCode |-> statusCode, body |-> body]
NoResponse == [present |-> FALSE, statusCode |-> 0, body |-> NotAString]

\* detectBlockReason that looks for the phrases in 2xx responses only
detectBlockReason_Only2xx(response) ==
    IF ~response.present THEN JsNull
    ELSE IF response.statusCode \in DOMAIN HttpReason
         THEN Str(HttpReason[response.statusCode])
    ELSE LET body == IF response.body.isString THEN response.body ELSE Text(<<>>)
         IN  IF body.pieces = <<>> THEN JsNull
             ELSE IF response.statusCode \in 200..299 /\ HasChallengePhrase(body)
                  THEN Str("challenge")
             ELSE JsNull

detectBlockReason(response) ==
    IF ~response.present THEN JsNull
    ELSE IF response.statusCode \in DOMAIN HttpReason
         THEN Str(HttpReason[response.statusCode])
    ELSE LET body == IF response.body.isString THEN response.body ELSE Text(<<>>)
         IN  IF body.pieces = <<>> THEN JsNull
             ELSE IF HasChallengePhrase(body) THEN Str("challenge")
             ELSE JsNull

\* gotScraping is called with throwHttpErrors: false, so a response of any
\* status reaches detectBlockReason
DetectBlockReasonArgs ==
    {[fn |-> "detectBlockReason", response |-> r] :
        r \in {NoResponse} \cup
              {Response(c, b) :
                  c \in {200, 204, 301, 403, 404, 429, 500, 502, 503},
                  b \in {NotAString, Text(<<>>), Text(<<"Flats for sale", "in Leeds">>),
                         Text(<<"Just a moment...">>),
                         Text(<<"Checking", "verify you are human">>),
                         Text(<<"reCAPTCHA", "Flats for sale">>),
                         Text(<<"Please enable JavaScript">>), Text(<<"Not found">>)}}}

CallDetectBlockReason ==
    /\ callArgs.fn = "detectBlockReason"
    /\ callResult = NoCall
    /\ callResult' = [fn |-> "detectBlockReason",
                      value |-> detectBlockReason(callArgs.response)]
    /\ UNCHANGED <<allRunVars, callArgs, worklist, blockVars>>

(***************************************************************************)
(* fetchSitemapUrls on a fixed site.  The documents of the site are        *)
(* numbered, 1..SitemapCandidates being the candidates; a document is an   *)
(* index naming other documents, a url set, or missing (its request is not *)
(* answered by a 200 with a body).  Each step is the return of one         *)
(* requestPage of collectFromSitemap.                                      *)
(***************************************************************************)
MaxLimit == 7          \* limit is drawn from 1..MaxLimit

Missing == [kind |-> "missing", nested |-> <<>>, locs |-> <<>>]
IndexDoc(nested) == [kind |-> "index", nested |-> nested, locs |-> <<>>]
UrlSetDoc(locs) == [kind |-> "urlset", nested |-> <<>>, locs |-> locs]

\* locs: /for-sale/details/n and /for-sale/property/london/n match the
\* listing patterns, /find-agents/details/n and /to-rent/details/n do not
Details(n) == Abs(<<W("for-sale"), W("details"), D(n)>>)
InLondon(n) == Abs(<<W("for-sale"), W("property"), W("london"), D(n)>>)
Other(word, n) == Abs(<<W(word), W("details"), D(n)>>)

\* two leaves, each with three listing urls and two others
LeafOne ==
    UrlSetDoc(<<Details(101), Other("find-agents", 1), InLondon(102),
                Other("to-rent", 2), Details(103)>>)
LeafTwo ==
    UrlSetDoc(<<Other("find-agents", 3), InLondon(201), Details(202),
                InLondon(203), Other("to-rent", 4)>>)

\* the sites: the index is the first or the second candidate and names two
\* leaves, the other candidates are missing; the first leaf may be missing,
\* the second may repeat urls of the first
Sites ==
    {[d \in 1..(SitemapCandidates + 2) |->
         IF d = indexAt
         THEN IndexDoc(<<SitemapCandidates + 1, SitemapCandidates + 2>>)
         ELSE IF d = SitemapCandidates + 1 THEN leafA
         ELSE IF d = SitemapCandidates + 2 THEN leafB
         ELSE Missing] :
        indexAt \in 1..2, leafA \in {LeafOne, Missing},
        leafB \in {LeafTwo,
                   UrlSetDoc(<<Details(101), Details(202), Other("to-rent", 2),
                               InLondon(102), Details(104)>>)}}

FetchSitemapUrlsArgs ==
    {[fn |-> "fetchSitemapUrls", limit |-> l, site |-> site] :
        l \in 1..MaxLimit, site \in Sites}

\* the first requestPage is under way
CallFetchSitemapUrls ==
    /\ callArgs.fn = "fetchSitemapUrls"
    /\ callResult = NoCall
    /\ pc = "call"
    /\ pc' = "smWalk"
    /\ sm' = [ci |-> 1, cur |-> 1, stack |-> <<>>, urls |-> <<>>,
              limit |-> callArgs.limit]
    /\ UNCHANGED <<cfgVars, ti, page, summary, limVars, limOnlyVars, runVars,
                   event, rejected, faults, callVars, blockVars>>

\* the state of the walk after document `doc` was read
AfterDocument(m, doc) ==
    IF doc.kind = "index" THEN [m EXCEPT !.stack = <<doc.nested>> \o @]
    ELSE IF doc.kind = "urlset"
         THEN [m EXCEPT !.urls = CollectLocs(doc.locs, @, m.limit)]
    ELSE m

\* a requestPage of collectFromSitemap returned; at the end of the walk the
\* value is Array.from(listingUrls).slice(0, limit)
SitemapDocumentReturn ==
    /\ callArgs.fn = "fetchSitemapUrls"
    /\ pc = "smWalk"
    /\ \E a \in {SmAdvance(AfterDocument(sm, callArgs.site[sm.cur]))} :
           /\ sm' = a.m
           /\ IF a.fetch
              THEN UNCHANGED <<pc, callResult>>
              ELSE /\ pc' = "call"
                   /\ callResult' =
                          [fn |-> "fetchSitemapUrls",
                           value |-> SubSeq(a.m.urls, 1,
                                            IF Len(a.m.urls) < a.m.limit
                                            THEN Len(a.m.urls) ELSE a.m.limit)]
    /\ UNCHANGED <<cfgVars, ti, page, summary, limVars, limOnlyVars, runVars,
                   event, rejected, faults, callArgs, worklist, blockVars>>

(***************************************************************************)
(* parsePriceValue.  A text is the sequence of its characters; the result  *)
(* is null, a number (its whole part and the digits after the point) or    *)
(* NaN.                                                                    *)
(***************************************************************************)
MaxPriceLen == 4       \* the texts tried, besides the display prices, are this long at most

Chars(chars) == [t |-> "text", chars |-> chars]
Decimal(n, frac) == [t |-> "num", whole |-> n, frac |-> frac]
Whole(n) == Decimal(n, <<>>)
NaN == [t |-> "nan", whole |-> 0, frac |-> <<>>]
NullPrice == [t |-> "null", whole |-> 0, frac |-> <<>>]

DigitChars == {"0", "1", "2", "3", "4", "5", "6", "7", "8", "9"}

\* the whole number written by a sequence of digits (0 for none)
RECURSIVE DigitsValue(_)
DigitsValue(digits) ==
    IF digits = <<>> THEN 0
    ELSE CHOOSE v \in
             {10 * front + (CHOOSE k \in 0..9 :
                                digits[Len(digits)] =
                                    <<"0", "1", "2", "3", "4", "5", "6", "7", "8", "9">>[k + 1]) :
                  front \in {DigitsValue(SubSeq(digits, 1, Len(digits) - 1))}} : TRUE

\* the digits after the point without their trailing zeros
RECURSIVE StripZeros(_)
StripZeros(digits) ==
    IF digits = <<>> \/ digits[Len(digits)] # "0" THEN digits
    ELSE StripZeros(SubSeq(digits, 1, Len(digits) - 1))

\* Number(text) for a non-empty text without white space: a text of digits
\* with at most one point, and not the point alone, is a number; any other
\* is NaN
Number(text) ==
    LET points == {i \in 1..Len(text) : text[i] = "."}
        others == {i \in 1..Len(text) : text[i] \notin DigitChars \cup {"."}}
    IN  IF others # {} \/ Cardinality(points) > 1 \/ text = <<".">> THEN NaN
        ELSE IF points = {} THEN Whole(DigitsValue(text))
        ELSE LET at == CHOOSE i \in points : TRUE
             IN  Decimal(DigitsValue(SubSeq(text, 1, at - 1)),
                         StripZeros(SubSeq(text, at + 1, Len(text))))

\* parsePriceValue whose pattern keeps the commas as well
parsePriceValue_KeepCommas(value) ==
    IF value.t \in {"num", "nan"} THEN value
    ELSE IF value.t = "null" \/ value.chars = <<>> THEN NullPrice
    ELSE LET numeric == SelectSeq(value.chars,
                                  LAMBDA c : c \in DigitChars \cup {".", ","})
         IN  IF numeric = <<>> THEN NullPrice ELSE Number(numeric)

\* a number is returned as it is, NaN included (typeof NaN is 'number')
parsePriceValue(value) ==
    IF value.t \in {"num", "nan"} THEN value
    ELSE IF value.t = "null" \/ value.chars = <<>> THEN NullPrice
    ELSE LET numeric == SelectSeq(value.chars, LAMBDA c : c \in DigitChars \cup {"."})
         IN  IF numeric = <<>> THEN NullPrice ELSE Number(numeric)

\* the texts of at most n characters
RECURSIVE TextsUpTo(_)
TextsUpTo(n) ==
    IF n = 0 THEN {<<>>}
    ELSE LET shorter == TextsUpTo(n - 1)
         IN  shorter \cup {Append(t, c) : t \in shorter,
                                          c \in {"£", ",", ".", " ", "k", "3", "0"}}

\* null, numbers, short texts, and prices as the site displays them
ParsePriceValueArgs ==
    {[fn |-> "parsePriceValue", value |-> v] :
        v \in {NullPrice, Whole(0), Whole(325000)}
                  \cup {Chars(t) : t \in TextsUpTo(MaxPriceLen) \cup
                            {<<"£", "3", "2", "5", ",", "0", "0", "0">>,
                             <<"£", "1", ",", "2", "5", "0", ",", "0", "0", "0">>,
                             <<"3", "2", "5", ",", "0", "0", "0">>,
                             <<"£", "9", "5", "0">>}}}

CallParsePriceValue ==
    /\ callArgs.fn = "parsePriceValue"
    /\ callResult = NoCall
    /\ callResult' = [fn |-> "parsePriceValue",
                      value |-> parsePriceValue(callArgs.value)]
    /\ UNCHANGED <<allRunVars, callArgs, worklist, blockVars>>

(***************************************************************************)
(* The priceValue of buildProperty, on a stub and a detail record reduced  *)
(* to their price fields.  A null detail, and a stub without the field     *)
(* (undefined), read as null.                                              *)
(***************************************************************************)
\* priceValue without its third operand
priceValue_NoDisplayPrice(listing, detail) ==
    LET truthy(v) == v.t = "num" /\ v # Whole(0)
        or(a, b) == IF truthy(a) THEN a ELSE b
    IN  or(or(parsePriceValue(detail.price), parsePriceValue(listing.priceValue)),
           NullPrice)

\* a || b on the results of parsePriceValue: null, NaN and 0 are falsy
priceValue(listing, detail) ==
    LET truthy(v) == v.t = "num" /\ v # Whole(0)
        or(a, b) == IF truthy(a) THEN a ELSE b
    IN  or(or(or(parsePriceValue(detail.price), parsePriceValue(listing.priceValue)),
              parsePriceValue(listing.price)),
           NullPrice)

\* detail.price is null, a number of the page's JSON-LD or a text of the
\* page ("£330,000", "POA", "£0");
\* normalizeListing gives priceValue null, NaN, 0 or a number, and price
\* null, a text ("£325,000", "POA", "£0", "1.2.3") or, when the item has a
\* numeric price and no formatted one, that number, which is then the
\* priceValue as well
PriceValueArgs ==
    {[fn |-> "priceValue", listing |-> [price |-> lp, priceValue |-> lv],
      detail |-> [price |-> dp]] :
        dp \in {NullPrice, Whole(330000),
                Chars(<<"£", "3", "3", "0", ",", "0", "0", "0">>),
                Chars(<<"P", "O", "A">>), Chars(<<"£", "0">>)},
        lv \in {NullPrice, NaN, Whole(0), Whole(325000)},
        lp \in {NullPrice, Chars(<<"£", "3", "2", "5", ",", "0", "0", "0">>),
                Chars(<<"P", "O", "A">>), Chars(<<"£", "0">>),
                Chars(<<"1", ".", "2", ".", "3">>)}}
    \cup {[fn |-> "priceValue",
           listing |-> [price |-> Whole(325000), priceValue |-> Whole(325000)],
           detail |-> [price |-> dp]] :
             dp \in {NullPrice, Whole(330000),
                Chars(<<"£", "3", "3", "0", ",", "0", "0", "0">>),
                     Chars(<<"P", "O", "A">>), Chars(<<"£", "0">>)}}

CallPriceValue ==
    /\ callArgs.fn = "priceValue"
    /\ callResult = NoCall
    /\ callResult' = [fn |-> "priceValue",
                      value |-> priceValue(callArgs.listing, callArgs.detail)]
    /\ UNCHANGED <<allRunVars, callArgs, worklist, blockVars>>

(***************************************************************************)
(* The worklist of extractListingsFromApiResponse.  A payload is a graph:  *)
(* `heap` is the sequence of its arrays and objects, a value is the index  *)
(* of one of them, 0 (null or another falsy value) or -1 (a string or a    *)
(* number that is truthy); `kids` are the items of an array or the         *)
(* Object.values of an object, and `item` is what isListingLike and        *)
(* normalizeListing read of an object.  Each step is one pass of the while *)
(* loop.                                                                   *)
(***************************************************************************)
\* "safety < 5000"
SafetyCap == 5000

\* a tree with two listings; an object that refers to itself, with a
\* listing that refers back to it; an array that holds itself; an object of
\* which two fields hold the same array; an array that holds the same
\* object twice; an array and an object that hold each other; null; a string
ApiGraphs ==
    LET Obj(item, kids) == [kind |-> "obj", item |-> item, kids |-> kids]
        Arr(kids) == [kind |-> "arr", item |-> ItemN, kids |-> kids]
    IN  {[root |-> 1,
          heap |-> <<Obj(ItemN, <<2>>), Arr(<<3, 4, 0, -1>>),
                     Obj(ItemA, <<-1, -1>>), Obj(ItemC, <<-1>>)>>],
         [root |-> 1,
          heap |-> <<Obj(ItemN, <<1, 2>>), Arr(<<3>>), Obj(ItemA, <<-1, -1, 1>>)>>],
         [root |-> 1, heap |-> <<Arr(<<1>>)>>],
         [root |-> 1,
          heap |-> <<Obj(ItemN, <<2, 2>>), Arr(<<3>>), Obj(ItemC, <<-1>>)>>],
         [root |-> 1, heap |-> <<Arr(<<2, 2>>), Obj(ItemC, <<-1>>)>>],
         [root |-> 1, heap |-> <<Arr(<<2>>), Obj(ItemC, <<-1, 1>>)>>],
         [root |-> 0, heap |-> <<>>],
         [root |-> -1, heap |-> <<>>]}

\* the loop body without the visited set
WorklistIteration_NoVisited(heap, w) ==
    LET current == w.stack[Len(w.stack)]
        w1 == [w EXCEPT !.safety = @ + 1,
                        !.stack = SubSeq(@, 1, Len(@) - 1)]
    IN  IF current < 1 THEN w1
        ELSE IF heap[current].kind = "arr"
        THEN [w1 EXCEPT
                 !.listings = @ \o SelectSeq(heap[current].kids,
                                      LAMBDA v : v >= 1 /\ heap[v].kind = "obj"
                                                        /\ isListingLike(heap[v].item)),
                 !.stack = @ \o heap[current].kids,
                 !.expanded[current] = @ + 1]
        ELSE [w1 EXCEPT !.stack = @ \o heap[current].kids,
                        !.expanded[current] = @ + 1]

\* one pass of the loop body: "safety += 1; const current = stack.pop(); ..."
WorklistIteration(heap, w) ==
    LET current == w.stack[Len(w.stack)]
        w1 == [w EXCEPT !.safety = @ + 1,
                        !.stack = SubSeq(@, 1, Len(@) - 1)]
    IN  IF current < 1 THEN w1
        ELSE IF heap[current].kind = "arr"
        THEN [w1 EXCEPT
                 !.listings = @ \o SelectSeq(heap[current].kids,
                                      LAMBDA v : v >= 1 /\ heap[v].kind = "obj"
                                                        /\ isListingLike(heap[v].item)),
                 !.stack = @ \o heap[current].kids,
                 !.expanded[current] = @ + 1]
        ELSE IF current \in w.visited THEN w1
        ELSE [w1 EXCEPT !.visited = @ \cup {current},
                        !.stack = @ \o heap[current].kids,
                        !.expanded[current] = @ + 1]

\* the call, up to the first test of the loop
CallExtractListingsFromApiResponse ==
    /\ callArgs.fn = "extractListingsFromApiResponse"
    /\ callResult = NoCall
    /\ worklist.pc = "idle"
    /\ worklist' = [pc |-> "loop", stack |-> <<callArgs.payload.root>>,
                    visited |-> {}, safety |-> 0, listings |-> <<>>,
                    expanded |-> [n \in 1..Len(callArgs.payload.heap) |-> 0]]
    /\ UNCHANGED <<allRunVars, callArgs, callResult, blockVars>>

\* "while (stack.length && safety < 5000)": one more pass, or the end of
\* the loop, the normalisation of the listings found and the return
WorklistStep ==
    /\ callArgs.fn = "extractListingsFromApiResponse"
    /\ worklist.pc = "loop"
    /\ IF worklist.stack # <<>> /\ worklist.safety < SafetyCap
       THEN /\ worklist' = WorklistIteration(callArgs.payload.heap, worklist)
            /\ UNCHANGED callResult
       ELSE /\ worklist' = [worklist EXCEPT !.pc = "done"]
            /\ callResult' =
                   [fn |-> "extractListingsFromApiResponse",
                    value |-> extractListingsFromApiResponse(
                                  [i \in 1..Len(worklist.listings) |->
                                      callArgs.payload.heap[worklist.listings[i]].item])]
    /\ UNCHANGED <<allRunVars, callArgs, blockVars>>

\* extractUkPostcode called on null and on each text of the model
CallExtractUkPostcode ==
    /\ callArgs.fn = "extractUkPostcode"
    /\ callResult = NoCall
    /\ callResult' = [fn |-> "extractUkPostcode",
                      value |-> extractUkPostcode(callArgs.value)]
    /\ UNCHANGED <<allRunVars, callArgs, worklist, blockVars>>

(***************************************************************************)
(* One call of one helper function on arguments of the model.              *)
(***************************************************************************)
InitHelpers ==
    /\ NoRun
    /\ BLOCK_EVENTS = <<>> /\ blockCalls = 0
    /\ callArgs \in BuildPropertyArgs \cup BlockEventArgs
                        \cup DetectBlockReasonArgs \cup FetchSitemapUrlsArgs
                        \cup ParsePriceValueArgs \cup PriceValueArgs
                        \cup {[fn |-> "extractListingsFromApiResponse", payload |-> g] :
                                  g \in ApiGraphs}
                        \cup {[fn |-> "extractUkPostcode", value |-> v] :
                                  v \in {JsNull} \cup {Str(p[1]) : p \in StringChars}}
    /\ callResult = NoCall
    /\ worklist = NoWorklist

NextHelpers ==
    \/ CallBuildProperty
    \/ CallRecordBlockEvent
    \/ CallDetectBlockReason
    \/ CallFetchSitemapUrls
    \/ SitemapDocumentReturn
    \/ CallParsePriceValue
    \/ CallExtractUkPostcode
    \/ CallPriceValue
    \/ CallExtractListingsFromApiResponse
    \/ WorklistStep

SpecHelpers == InitHelpers /\ [][NextHelpers]_vars

(***************************************************************************)
(* Properties of the run (Spec, and SpecFair for termination).             *)
(***************************************************************************)
\* C1: the number of Properties handed to Dataset.pushData never exceeds
\* resultsWanted.
C1_EmittedWithinQuota == BagCardinality(emitted) <= resultsWanted

\* C2: no two emitted Properties have the same identity (listingId if
\* present, else url).
C2_EmittedIdentitiesDistinct ==
    \A e1 \in BagToSet(emitted) :
        /\ CopiesIn(e1, emitted) = 1
        /\ \A e2 \in BagToSet(emitted) :
               Or(e1.property.listingId, e1.property.url)
                   = Or(e2.property.listingId, e2.property.url) => e1 = e2

\* C3: over the whole run at most one task passes the dedup gate for a
\* given key.
C3_GatePassedOncePerKey ==
    \A key \in BagToSet(admitted) : CopiesIn(key, admitted) = 1

\* a task was turned away in the last step because its key had passed the
\* gate before
C3_SecondTaskTurnedAway ==
    \E key \in rejected : CopiesIn(key, admitted) = 1

\* C4: while a task the json-api strategy scheduled for the current target
\* is queued or running, no HTML page fetch or HTML listing task is under
\* way for that target.
C4_NoHtmlWorkBeforeApiDone ==
    pc \in {"htmlFetch", "htmlBatch"} =>
        \A k \in 1..Len(queue \o running) :
            ~((queue \o running)[k].strat = "json-api" /\ (queue \o running)[k].ti = ti)

\* C5: when a page of a strategy yields no listing stub, that strategy asks
\* for no further page for the target and the orchestrator goes on to the
\* next strategy in the order json-api, html, sitemap (the quota being
\* unmet); the orchestrator never returns to an earlier strategy of a target.
C5_ZeroStubsEndStrategy ==
    [][/\ event' = "zero" =>
            /\ pc \in FetchPcs
            /\ ~(pc' = pc /\ ti' = ti)
            /\ saved < resultsWanted =>
                   /\ pc = "apiFetch" => pc' = "htmlFetch" /\ ti' = ti /\ page' = 1
                   /\ pc = "htmlFetch" => pc' = "smFetch" /\ ti' = ti
                   /\ pc = "smFetch" => ti' = ti + 1 /\ pc' \in {"apiFetch", "report"}
       /\ ti' >= ti
       /\ (ti' = ti /\ pc \in FetchPcs \cup BatchPcs /\ pc' \in FetchPcs \cup BatchPcs) =>
              LET rank(p) == IF Method(p) = "json-api" THEN 1
                             ELSE IF Method(p) = "html" THEN 2 ELSE 3
              IN  rank(pc') >= rank(pc)
      ]_vars

\* the first json-api page of a target had no stub and the first HTML page
\* is being fetched
C5_ApiEmptyThenHtml ==
    event = "zero" /\ pc = "htmlFetch" /\ page = 1 /\ errorLog = <<>>

C7_EveryFailedTaskLogged ==
    [][event' \in {"taskThrow", "orphanThrow"} =>
           Len(errorLog') = Len(errorLog) + 1]_vars

\* C8: every run eventually reaches its terminal state.
C8_RunTerminates == <>(pc = "exited")

\* C9: with no startUrl and no non-empty startUrls in the input, the run
\* stops before any work starts: no fetch is issued and nothing is emitted.
C9_NoUrlInputStopsRun ==
    noUrlInput => pc \in {"start", "inputError", "exited"} /\ emitted = EmptyBag

\* C9, as the code has it: with no startUrl and no non-empty startUrls in the
\* input, the run takes DEFAULT_START_URL as its only target, reports no
\* input error and proceeds.
C9_NoUrlInputUsesDefault ==
    noUrlInput =>
        /\ targets = <<DEFAULT_START_URL>>
        /\ ~hasInputError
        /\ pc # "inputError"

\* a run without url input handed a Property to the Dataset
C9_DefaultRunEmits == noUrlInput /\ BagCardinality(emitted) > 0

(***************************************************************************)
(* Properties of the limiter (SpecLimiter).                                *)
(***************************************************************************)
\* C10: the number of tasks started and not yet settled is at most N.
C10_RunningAtMostN == Len(running) <= maxConcurrency

\* the limiter is full after a task has settled, with a task waiting
C10_FullWithTaskWaiting ==
    Len(running) = maxConcurrency /\ queue # <<>> /\ settled # <<>>

\* C11: every submitted task is eventually started and its promise settles
\* with the task's own outcome; until then the task is queued or running,
\* never dropped.
C11_SubmittedTasksSettle ==
    /\ [](\A t \in 1..submitted :
              \/ \E i \in 1..Len(queue) : queue[i] = t
              \/ \E i \in 1..Len(running) : running[i] = t
              \/ \E i \in 1..Len(settled) : settled[i].task = t)
    /\ [](\A i \in 1..Len(settled) : settled[i].promise = settled[i].outcome)
    /\ \A t \in 1..MaxTasksL :
           (submitted >= t) ~>
               /\ \E i \in 1..Len(started) : started[i] = t
               /\ \E i \in 1..Len(settled) : settled[i].task = t

\* a limiter of one slot has settled every task, one of them rejected
C11_AllSettledThroughOneSlot ==
    /\ maxConcurrency = 1
    /\ Len(settled) = MaxTasksL
    /\ \E i \in 1..Len(settled) : settled[i].promise = "rejected"

\* C12: the finally callback of a rejected task gives its slot back and
\* starts the head of the queue; the rejection settles that task's promise
\* only, and every promise is rejected exactly when its own task rejected.
C12_RejectionReleasesSlot ==
    [][/\ \A t \in finishing \ finishing' :
             (\E i \in 1..Len(settled) :
                  settled[i].task = t /\ settled[i].outcome = "rejected") =>
                 IF queue = <<>>
                 THEN active' = active - 1 /\ started' = started
                 ELSE /\ active' = active
                      /\ queue' = Tail(queue)
                      /\ started' = Append(started, Head(queue))
                      /\ running' = Append(running, Head(queue))
       /\ \A i \in 1..Len(settled) : settled'[i] = settled[i]
       /\ \A i \in 1..Len(settled') :
             (settled'[i].promise = "rejected") = (settled'[i].outcome = "rejected")
      ]_vars

\* behind a rejected task whose finally callback has run, the task that was
\* queued has been started
C12_NextStartedAfterRejection ==
    /\ maxConcurrency = 1
    /\ Len(settled) >= 1 /\ settled[1].promise = "rejected"
    /\ settled[1].task \notin finishing
    /\ Len(started) >= 2 /\ started[2] \in {running[i] : i \in 1..Len(running)}

\* C13: the number of listing tasks running at the same time never exceeds
\* the maxConcurrency value of the input, or 2 when the input has none
C13_RunningWithinInputConcurrency ==
    Len(running) <= (IF inputMaxConcurrency = NotGiven
                     THEN README_MAX_CONCURRENCY
                     ELSE inputMaxConcurrency)

\* C14: when collectDetails is false no task of any of the three strategies
\* is waiting for fetchListingDetail
C14_NoDetailFetchWhenDisabled ==
    ~collectDetails =>
        \A i \in 1..Len(running) : running[i].pc # "detail"

(***************************************************************************)
(* Properties of buildProperty (SpecHelpers).                        *)
(***************************************************************************)
\* C15, as stated: every field the stub and the detail record both carry
\* has the detail's value when that is non-null, otherwise the stub's value,
\* otherwise null.
C15_DetailThenStubThenNull ==
    callResult.fn = "buildProperty" =>
        \A f \in SharedFields :
            callResult.fields[f] =
                IF callArgs.detail[f] # JsNull THEN callArgs.detail[f]
                ELSE callArgs.listing[f]

\* C15: beds, baths, latitude and longitude have the detail's value when it
\* is non-null, otherwise the stub's value, otherwise null; title, price,
\* address, locality and propertyType likewise, except that an empty text
\* of the stub gives null; postalCode falls back, after the detail's value
\* and the stub's non-empty value, to the postcode found in the merged
\* address, and is null only when there is none.
C15_MergePerField ==
    callResult.fn = "buildProperty" =>
        LET l == callArgs.listing
            d == callArgs.detail
            r == callResult.fields
        IN  /\ \A f \in {"beds", "baths", "latitude", "longitude"} :
                   r[f] = IF d[f] # JsNull THEN d[f] ELSE l[f]
            /\ \A f \in {"title", "price", "address", "locality", "propertyType"} :
                   r[f] = IF d[f] # JsNull THEN d[f]
                          ELSE IF l[f] # Str("") THEN l[f]
                          ELSE JsNull
            /\ r.postalCode =
                   IF d.postalCode # JsNull THEN d.postalCode
                   ELSE IF l.postalCode \notin {JsNull, Str("")} THEN l.postalCode
                   ELSE IF r.address = Str("3 Mill Lane, Leeds ls1 4ab") THEN Str("LS1 4AB")
                   ELSE JsNull

\* a stub with 2 beds and a postcode in its address only, merged with a
\* detail record with 3 beds
C15_DetailBedsOverStubBeds ==
    /\ callResult.fn = "buildProperty"
    /\ callArgs.listing.beds = Num(2)
    /\ callArgs.detail.beds = Num(3)
    /\ callResult.fields.beds = Num(3)
    /\ callArgs.listing.postalCode = JsNull
    /\ callResult.fields.postalCode = Str("LS1 4AB")

\* C16: a Property built from a stub or a detail record with a URL has a
\* non-null listingId: the stub's id, else the detail's id, else the id
\* derived from the Property's url, else that url itself.
C16_IdentityWheneverUrl ==
    (/\ callResult.fn = "buildProperty"
     /\ (callArgs.listing.url # Null \/ callArgs.detail.url # Null)) =>
        LET l == callArgs.listing
            d == callArgs.detail
            r == callResult.identity
        IN  /\ r.listingId # Null
            /\ r.url # Null
            /\ r.listingId =
                   IF l.listingId # Null THEN l.listingId
                   ELSE IF d.listingId # Null THEN d.listingId
                   ELSE IF extractListingId(r.url) # Null
                        THEN extractListingId(r.url)
                   ELSE r.url

\* no id anywhere, and a url no id can be derived from: the url is the id
C16_UrlIsTheIdentity ==
    /\ callResult.fn = "buildProperty"
    /\ callArgs.listing.listingId = Null
    /\ callArgs.detail.listingId = Null
    /\ callArgs.listing.url = Rel(<<W("for-sale"), W("property"), W("london")>>)
    /\ callResult.identity.listingId =
           Abs(<<W("for-sale"), W("property"), W("london")>>)

(***************************************************************************)
(* Properties of recordBlockEvent (SpecHelpers).                       *)
(***************************************************************************)
\* C17: BLOCK_EVENTS never holds more than 50 entries; a call made while it
\* holds 50 leaves it unchanged; the entries are those of the first calls,
\* in the order of the calls.
C17_BlockEventsCapped ==
    /\ [](Len(BLOCK_EVENTS) <= 50)
    /\ [](\A i \in 1..Len(BLOCK_EVENTS) : BLOCK_EVENTS[i].timestamp = i)
    /\ [][(Len(BLOCK_EVENTS) = 50 /\ blockCalls' = blockCalls + 1)
              => BLOCK_EVENTS' = BLOCK_EVENTS]_vars
    /\ [][(Len(BLOCK_EVENTS) < 50 /\ blockCalls' = blockCalls + 1)
              => Len(BLOCK_EVENTS') = Len(BLOCK_EVENTS) + 1]_vars

\* more calls than the list holds
C17_CallsBeyondTheCap ==
    /\ blockCalls > 50
    /\ Len(BLOCK_EVENTS) = 50
    /\ BLOCK_EVENTS[50].timestamp = 50

(***************************************************************************)
(* Properties of detectBlockReason (SpecHelpers).                *)
(***************************************************************************)
\* C18, as stated: the reason is non-null exactly when the status is 403,
\* 429 or 503, or the status is 2xx and the body is a text with one of the
\* challenge phrases.
C18_ChallengeOnlyIn2xx ==
    callResult.fn = "detectBlockReason" =>
        LET r == callArgs.response
        IN  callResult.value # JsNull <=>
                /\ r.present
                /\ \/ r.statusCode \in {403, 429, 503}
                   \/ /\ r.statusCode \in 200..299
                      /\ r.body.isString
                      /\ \E i \in 1..Len(r.body.pieces) :
                             r.body.pieces[i] \in
                                 {"Just a moment...", "verify you are human",
                                  "reCAPTCHA", "Please enable JavaScript"}

\* C18: the reason is HTTP_<status> when the status is 403, 429 or 503,
\* whatever the body; otherwise it is "challenge" when the body is a text
\* with one of the challenge phrases, in any letter case and whatever the
\* status; otherwise it is null.
C18_ChallengeInAnyStatus ==
    callResult.fn = "detectBlockReason" =>
        LET r == callArgs.response
            phrase == /\ r.body.isString
                      /\ \E i \in 1..Len(r.body.pieces) :
                             r.body.pieces[i] \in
                                 {"Just a moment...", "verify you are human",
                                  "reCAPTCHA", "Please enable JavaScript"}
        IN  callResult.value =
                IF ~r.present THEN JsNull
                ELSE IF r.statusCode = 403 THEN Str("HTTP_403")
                ELSE IF r.statusCode = 429 THEN Str("HTTP_429")
                ELSE IF r.statusCode = 503 THEN Str("HTTP_503")
                ELSE IF phrase THEN Str("challenge")
                ELSE JsNull

\* a 404 page with the wording of an interstitial
C18_ChallengeIn404 ==
    /\ callResult.fn = "detectBlockReason"
    /\ callArgs.response.present
    /\ callArgs.response.statusCode = 404
    /\ callArgs.response.body = Text(<<"Just a moment...">>)
    /\ callResult.value = Str("challenge")

(***************************************************************************)
(* Properties of fetchSitemapUrls (SpecHelpers).                  *)
(***************************************************************************)
\* C19: walking an index that names leaf sitemaps, fetchSitemapUrls returns
\* listing urls of the leaves only, each once and never more than `limit`;
\* when `limit` is not below their number it returns all of them (6 for two
\* leaves with three listing urls and two others each).
C19_ListingUrlsOfTheLeaves ==
    callResult.fn = "fetchSitemapUrls" =>
        LET value == callResult.value
            site == callArgs.site
            leafLocs == UNION {{site[d].locs[i] : i \in 1..Len(site[d].locs)} :
                                  d \in DOMAIN site}
            expected == leafLocs \cap
                            ({Details(n) : n \in 101..104} \cup {Details(202)}
                                 \cup {InLondon(n) : n \in {102, 201, 203}})
            returned == {value[i] : i \in 1..Len(value)}
        IN  /\ Len(value) <= callArgs.limit
            /\ Cardinality(returned) = Len(value)
            /\ returned \subseteq expected
            /\ Len(value) = IF Cardinality(expected) < callArgs.limit
                            THEN Cardinality(expected) ELSE callArgs.limit
            /\ (site[SitemapCandidates + 1] = LeafOne
                  /\ site[SitemapCandidates + 2] = LeafTwo
                  /\ callArgs.limit >= 6) => Len(value) = 6

\* the two leaves of three listing urls and two others, and room for all
C19_SixOfTenCollected ==
    /\ callResult.fn = "fetchSitemapUrls"
    /\ callArgs.site[SitemapCandidates + 1] = LeafOne
    /\ callArgs.site[SitemapCandidates + 2] = LeafTwo
    /\ callArgs.limit > 6
    /\ {callResult.value[i] : i \in 1..Len(callResult.value)} =
           {Details(101), InLondon(102), Details(103),
            InLondon(201), Details(202), InLondon(203)}

(***************************************************************************)
(* Properties of parsePriceValue (SpecHelpers).                    *)
(***************************************************************************)
\* C20: for a text made of currency symbols, thousands separators and at
\* least one digit, parsePriceValue returns the whole number its digits
\* write ("£325,000" gives 325000); for null and for the empty text it
\* returns null.
C20_DisplayPriceParsed ==
    callResult.fn = "parsePriceValue" =>
        LET v == callArgs.value
            isDisplayPrice ==
                /\ v.t = "text"
                /\ \A i \in 1..Len(v.chars) : v.chars[i] \in DigitChars \cup {"£", ","}
                /\ \E i \in 1..Len(v.chars) : v.chars[i] \in DigitChars
        IN  /\ (v.t = "null" \/ (v.t = "text" /\ v.chars = <<>>)) =>
                   callResult.value = NullPrice
            /\ isDisplayPrice =>
                   callResult.value =
                       Whole(DigitsValue(SelectSeq(v.chars, LAMBDA c : c \in DigitChars)))
            /\ v = Chars(<<"£", "3", "2", "5", ",", "0", "0", "0">>) =>
                   callResult.value = Whole(325000)

\* the display price of the example, parsed
C20_PoundsAndCommasStripped ==
    /\ callResult.fn = "parsePriceValue"
    /\ callArgs.value = Chars(<<"£", "3", "2", "5", ",", "0", "0", "0">>)
    /\ callResult.value = Whole(325000)

(***************************************************************************)
(* Properties of extractUkPostcode (SpecHelpers).                          *)
(***************************************************************************)
\* C21: extractUkPostcode returns, in upper case, the first match found by
\* trying in turn a full postcode with white space, a full postcode without
\* white space, and an outcode alone at the end of the text ("Shoreditch,
\* London E1 6AN" gives "E1 6AN"), and null when none of the three matches.
C21_FirstOfThreePatterns ==
    callResult.fn = "extractUkPostcode" =>
        /\ callResult.value = PlaywrightExtractUkPostcode(callArgs.value)
        /\ callArgs.value = Str("Shoreditch, London E1 6AN") =>
               callResult.value = Str("E1 6AN")

(***************************************************************************)
(* Further properties of the run (Spec).                                   *)
(***************************************************************************)
\* C22: a task that starts while saved >= resultsWanted does nothing.  The
\* tasks a step starts see the value saved has after the step, so in every
\* step that ends with saved >= resultsWanted no key is added to seen, no
\* task newly waits for a detail fetch or for pushData, nothing is emitted
\* except by a task that was already running and whose detail fetch
\* returned, and saved and stats change only by the pushData call of a task
\* that was already running.
C22_TaskAtQuotaIsNoOp ==
    [][saved' >= resultsWanted =>
           /\ seen' = seen
           /\ admitted' = admitted
           /\ \A i \in 1..Len(running') :
                  \E j \in 1..Len(running) :
                      /\ running'[i].listing = running[j].listing
                      /\ running'[i].strat = running[j].strat
                      /\ running'[i].ti = running[j].ti
                      /\ \/ running'[i].pc = running[j].pc
                         \/ running[j].pc = "detail" /\ running'[i].pc = "push"
           /\ emitted' # emitted =>
                  /\ queue' = queue
                  /\ \E j \in 1..Len(running) :
                         /\ running[j].pc = "detail"
                         /\ running' = [running EXCEPT ![j].pc = "push"]
           /\ \/ saved' = saved /\ stats' = stats
              \/ /\ saved' = saved + 1
                 /\ \E j \in 1..Len(running) : running[j].pc = "push"
      ]_vars

\* the fourth task of a page was started when the quota of one had been
\* met: it left the queue without registering its key
C22_QueuedTaskDroppedAtQuota ==
    /\ pc = "apiBatch" /\ ti = 1 /\ page = 1 /\ faults = 0
    /\ resultsWanted = 1 /\ saved = 1
    /\ queue = <<>> /\ Len(running) = 2
    /\ IdStr(789) \notin seen
    /\ IdStr(456) \in seen

\* C23: while the json-api or html strategy waits for a page of a target,
\* no task that strategy scheduled for that target is queued or running (the
\* tasks of page K have all settled when page K+1 is requested); a strategy
\* requests the pages of a target in the order 1, 2, ... and none beyond
\* maxPages.
C23_PagesInOrderAfterBatch ==
    /\ [](pc \in {"apiFetch", "htmlFetch"} =>
              /\ page \in 1..maxPages
              /\ \A k \in 1..Len(queue \o running) :
                     ~(/\ (queue \o running)[k].strat = Method(pc)
                       /\ (queue \o running)[k].ti = ti))
    /\ [][(/\ pc' \in {"apiFetch", "htmlFetch"}
           /\ <<pc', ti', page'>> # <<pc, ti, page>>) =>
              IF pc \in FetchPcs \cup BatchPcs /\ Method(pc) = Method(pc') /\ ti' = ti
              THEN page' = page + 1
              ELSE page' = 1
         ]_vars

\* the second json-api page of a target is requested after the task of the
\* first page has pushed its Property
C23_SecondPageAfterFirstBatch ==
    /\ pc = "apiFetch" /\ page = 2 /\ ti = 1
    /\ saved = 1 /\ BagCardinality(emitted) = 1
    /\ queue = <<>> /\ running = <<>>

(***************************************************************************)
(* Further properties of the limiter (SpecLimiter).                        *)
(***************************************************************************)
\* C24: the limiter starts tasks in the order of their submission, whatever
\* the order in which running tasks settle: the i-th task started is the
\* i-th submitted, and the queue holds the tasks submitted after those, in
\* the order of their submission.
C24_StartedInSubmissionOrder ==
    /\ \A i \in 1..Len(started) : started[i] = i
    /\ \A i \in 1..Len(queue) : queue[i] = Len(started) + i

\* two slots: the second task settled before the first, the third was
\* started in its place and the fourth waits
C24_StartAfterLaterTaskSettled ==
    /\ maxConcurrency = 2
    /\ settled # <<>> /\ settled[1].task = 2
    /\ started = <<1, 2, 3>>
    /\ queue = <<4>>

(***************************************************************************)
(* Properties of buildProperty's priceValue (SpecHelpers).                 *)
(***************************************************************************)
\* C25, as stated: priceValue is the first of the parses of detail.price,
\* stub.priceValue and stub.price that is a number, and null only when none
\* of the three is a number.
C25_FirstParsedNumber ==
    callResult.fn = "priceValue" =>
        LET parses == <<parsePriceValue(callArgs.detail.price),
                        parsePriceValue(callArgs.listing.priceValue),
                        parsePriceValue(callArgs.listing.price)>>
            numbers == {i \in 1..3 : parses[i].t = "num"}
        IN  callResult.value =
                IF numbers = {} THEN NullPrice ELSE parses[Min(numbers)]

\* C25: priceValue is the first of the parses of detail.price,
\* stub.priceValue and stub.price that is a number other than 0, and null
\* when none of the three is such a number.
C25_FirstParsedNonZeroNumber ==
    callResult.fn = "priceValue" =>
        LET parses == <<parsePriceValue(callArgs.detail.price),
                        parsePriceValue(callArgs.listing.priceValue),
                        parsePriceValue(callArgs.listing.price)>>
            numbers == {i \in 1..3 : parses[i].t = "num" /\ parses[i] # Whole(0)}
        IN  callResult.value =
                IF numbers = {} THEN NullPrice ELSE parses[Min(numbers)]

\* no price on the detail page and no numeric price in the stub: the
\* display price of the stub is parsed
C25_DisplayPriceOfStubParsed ==
    /\ callResult.fn = "priceValue"
    /\ callArgs.detail.price = Chars(<<"P", "O", "A">>)
    /\ callArgs.listing.priceValue = NullPrice
    /\ callArgs.listing.price = Chars(<<"£", "3", "2", "5", ",", "0", "0", "0">>)
    /\ callResult.value = Whole(325000)

(***************************************************************************)
(* Properties of the worklist of extractListingsFromApiResponse            *)
(* (SpecHelpers).                                                          *)
(***************************************************************************)
\* C26, as stated: the loop makes at most 5000 passes and expands no array
\* or object of the payload more than once.
C26_EveryNodeExpandedOnce ==
    /\ worklist.safety <= 5000
    /\ \A n \in 1..Len(worklist.expanded) : worklist.expanded[n] <= 1

\* C26: the loop ends after at most 5000 passes, on every payload, cyclic
\* ones included: each pass adds one to safety and the loop is left when
\* the stack is empty or safety is 5000; no object that is not an array is
\* expanded more than once.
C26_ObjectsExpandedOnce ==
    /\ [](worklist.safety <= 5000)
    /\ [](worklist.pc \in {"loop", "done"} =>
              \A n \in 1..Len(worklist.expanded) :
                  callArgs.payload.heap[n].kind = "obj" => worklist.expanded[n] <= 1)
    /\ [][worklist.pc = "loop" =>
              \/ worklist'.pc = "loop" /\ worklist'.safety = worklist.safety + 1
              \/ /\ worklist'.pc = "done"
                 /\ worklist.stack = <<>> \/ worklist.safety = 5000
                 /\ callResult'.fn = "extractListingsFromApiResponse"]_vars

\* the walk of the payload whose root object refers to itself has ended
\* with an empty stack, the root expanded once and its listing found
C26_ObjectCycleWalked ==
    /\ worklist.pc = "done"
    /\ Len(callArgs.payload.heap) = 3
    /\ callArgs.payload.heap[1].kind = "obj"
    /\ callArgs.payload.heap[1].kids[1] = 1
    /\ worklist.stack = <<>>
    /\ worklist.expanded[1] = 1
    /\ Len(callResult.value) = 1

(***************************************************************************)
(* Further properties of the run (Spec): tasks in flight, the end of the   *)
(* run, failed tasks and the keys of the emitted Properties.               *)
(***************************************************************************)
\* C27: in every reachable state, saved plus the number of tasks that have
\* passed the quota check and have not yet added one to saved (the tasks the
\* limiter is running, abandoned ones included) is at most
\* resultsWanted + maxConcurrency - 1; hence the Properties written and
\* being written never exceed that number.  A Property whose pushData threw
\* is not counted as emitted: every Property handed to pushData is saved,
\* still being pushed, or belongs to a task that threw.
C27_SavedPlusInFlightBounded ==
    LET pushing == Cardinality({k \in 1..Len(running) : running[k].pc = "push"})
    IN  /\ saved + Len(running) <= resultsWanted + maxConcurrency - 1
        /\ saved + pushing <= resultsWanted + maxConcurrency - 1
        /\ BagCardinality(emitted) <= saved + pushing + faults

\* the bound is attained with more than one task at a time: saved has
\* passed the quota by maxConcurrency - 1
C27_BoundAttained ==
    /\ maxConcurrency > 1
    /\ resultsWanted >= 1
    /\ saved = resultsWanted + maxConcurrency - 1

\* C28: once the end-of-run report (RUN_SUMMARY or the zero-saved status)
\* has been written, no limiter task was queued or running when saved was
\* read, and the reported listingsSaved is the number of Properties written
\* in the run: no Property is written after the report.
C28_NothingPendingAtReport ==
    summary.written =>
        /\ summary.pending = 0
        /\ summary.listingsSaved = saved

C30_ListingIdIsAdmittedKey ==
    \A e \in DOMAIN emitted : e.property.listingId = e.key

====
